---- MODULE Spec2Model ----
\* Verification model of the AI-Co-Scientist role executors
\* (src/src/agents/*.py).  Texts returned by the language model are finite
\* sequences of tokens (words, single spaces, punctuation marks, decimal
\* digits); Python's `in`, str.count, str.split and str.lower are modelled
\* on these sequences.  Python lists are 1-based sequences here, and Python
\* dicts are functions from key strings to values.
EXTENDS Integers, Sequences, FiniteSets, TLC

\* ------------------------------------------------------------------ bounds
\* largest input list handed to RankingAgent.process
MaxHyps == 6
\* largest input list handed to ProximityAgent.process
MaxBatch == 3
\* largest ranked list handed to EvolutionAgent.process
MaxEvolve == 4
\* number of process calls made one after the other on one agent
MaxPasses == 2
\* longest prefix of a previous result that is handed to the next pass
MaxRerank == 2
\* refinement iterations handed to the orchestrator
MaxIterations == 2
\* calls of generate_hypotheses that reach the language model
MaxGenerations == 2
\* requests the supervisor sends to the language model
MaxSupervisorCalls == 3
\* sentences of a comparison text
MaxSentences == 3
\* hypothesis groups of a generation response
MaxGroups == 2

\* ------------------------------------------------------- program constants
\* evolution_agent.py:67  `top_k = min(3, len(sorted_hypotheses))`
TopKLimit == 3
\* main.py:203  `top_hypotheses = self.ranked_hypotheses[:3]`
TopSlots == 3
\* proximity_agent.py:143  default proximity score 5.0
DefaultProximityScore == 5
\* proximity_agent.py:161  `is_relevant = proximity_score >= 6.0`
RelevanceCutoff == 6
\* proximity_agent.py:113  `threshold: float = 5.0`
DefaultThreshold == 5
\* ranking_agent.py:78  `if len(reviewed_hypotheses) <= 5`
PairwiseThreshold == 5

\* ------------------------------------------------------------ text helpers
SP == " "

\* str.lower(), token by token: the capitalised words that occur in the
\* texts of this model.
LowerTok(t) ==
    CASE t = "Hypothesis" -> "hypothesis"
      [] t = "Novelty" -> "novelty"
      [] t = "Plausibility" -> "plausibility"
      [] t = "Relevance" -> "relevance"
      [] t = "Testability" -> "testability"
      [] t = "Potential" -> "potential"
      [] t = "Overall" -> "overall"
      [] t = "Proximity" -> "proximity"
      [] t = "Score" -> "score"
      [] t = "Not" -> "not"
      [] t = "Highly" -> "highly"
      [] t = "Very" -> "very"
      [] t = "Irrelevant" -> "irrelevant"
      [] t = "Statement" -> "statement"
      [] t = "Rationale" -> "rationale"
      [] t = "Evidence" -> "evidence"
      [] t = "Assumptions" -> "assumptions"
      [] t = "Validation" -> "validation"
      [] t = "Strong" -> "strong"
      [] t = "To" -> "to"
      [] t = "Skip" -> "skip"
      [] t = "Omit" -> "omit"
      [] t = "Add" -> "add"
      [] t = "Remove" -> "remove"
      [] t = "Explore" -> "explore"
      [] t = "Sleep" -> "sleep"
      [] t = "Caffeine" -> "caffeine"
      [] t = "It" -> "it"
      [] t = "Why" -> "why"
      [] OTHER -> t

RECURSIVE Lower(_)
Lower(text) ==
    IF Len(text) = 0 THEN <<>>
    ELSE <<LowerTok(Head(text))>> \o Lower(Tail(text))

\* pat occurs in text at position i
MatchAt(text, pat, i) ==
    \/ Len(pat) = 0
    \/ /\ i + Len(pat) - 1 <= Len(text)
       /\ text[i] = pat[1]
       /\ \A j \in 2..Len(pat) : text[i + j - 1] = pat[j]

\* `pat in text`
Contains(text, pat) ==
    \E i \in 1..(Len(text) - Len(pat) + 1) : MatchAt(text, pat, i)

\* text.count(pat): non-overlapping occurrences, scanning left to right
RECURSIVE CountFrom(_, _, _)
CountFrom(text, pat, i) ==
    IF i + Len(pat) - 1 > Len(text) THEN 0
    ELSE IF MatchAt(text, pat, i)
         THEN 1 + CountFrom(text, pat, i + Len(pat))
         ELSE CountFrom(text, pat, i + 1)

Count(text, pat) == CountFrom(text, pat, 1)

\* text.split(sep) for a one-token separator: the pieces between separators
Split(text, sep) ==
    LET seps == {i \in 1..Len(text) : text[i] = sep}
        \* the position of the k-th separator, 0 and Len(text) + 1 at the ends
        at(k) == IF k = 0 THEN 0
                 ELSE IF k > Cardinality(seps) THEN Len(text) + 1
                 ELSE CHOOSE i \in seps :
                          Cardinality({j \in seps : j < i}) = k - 1
    IN  [k \in 1..(Cardinality(seps) + 1) |->
            SubSeq(text, at(k - 1) + 1, at(k) - 1)]

\* sep.join(pieces)
RECURSIVE Join(_, _)
Join(pieces, sep) ==
    IF Len(pieces) = 0 THEN <<>>
    ELSE IF Len(pieces) = 1 THEN pieces[1]
    ELSE pieces[1] \o <<sep>> \o Join(Tail(pieces), sep)

\* pieces[-k:]
LastK(s, k) == IF Len(s) <= k THEN s ELSE SubSeq(s, Len(s) - k + 1, Len(s))

\* str(i) / "{}".format(i) for 0 <= i <= 99, as digit tokens
DigitTok(d) ==
    CASE d = 0 -> "0" [] d = 1 -> "1" [] d = 2 -> "2" [] d = 3 -> "3"
      [] d = 4 -> "4" [] d = 5 -> "5" [] d = 6 -> "6" [] d = 7 -> "7"
      [] d = 8 -> "8" [] d = 9 -> "9"

Str(i) == IF i < 10 THEN <<DigitTok(i)>>
          ELSE <<DigitTok(i \div 10), DigitTok(i % 10)>>

\* int(s) for a digit-token sequence
DigitVal(t) ==
    CASE t = "0" -> 0 [] t = "1" -> 1 [] t = "2" -> 2 [] t = "3" -> 3
      [] t = "4" -> 4 [] t = "5" -> 5 [] t = "6" -> 6 [] t = "7" -> 7
      [] t = "8" -> 8 [] t = "9" -> 9

RECURSIVE IntOf(_)
IntOf(s) == IF Len(s) = 0 THEN 0
            ELSE 10 * IntOf(SubSeq(s, 1, Len(s) - 1)) + DigitVal(s[Len(s)])

\* ------------------------------------------------------------ dict helpers
\* d[key] = value on a copy of d
DictSet(d, key, value) == (key :> value) @@ d

\* d.get(key, default)
DictGet(d, key, default) == IF key \in DOMAIN d THEN d[key] ELSE default

\* del d[key] for every key of keys that d has
DictDel(d, keys) == [x \in (DOMAIN d) \ keys |-> d[x]]

\* ---------------------------------------------------------------- BaseAgent
\* the SystemMessage that __init__ puts first in the history; the prompt text
\* of an agent is identified by the agent's name
SystemMessage(agent_name) == [role |-> "system", content |-> <<agent_name>>]

\* BaseAgent.add_message
add_message(history, message, is_human) ==
    Append(history, [role |-> IF is_human THEN "human" ELSE "ai",
                     content |-> message])

\* get_response up to llm.invoke (lines 77-81): the query is appended and
\* the whole history is sent
Requested(history, query) == add_message(history, query, TRUE)

\* get_response after llm.invoke returned (line 84)
Answered(history, content) == add_message(history, content, FALSE)

\* BaseAgent.clear_history
clear_history(history) == <<history[1]>>

\* the f-string prompts: the fixed heading of the prompt and the values it
\* interpolates, one per line
RECURSIVE Lines(_)
Lines(values) ==
    IF Len(values) = 0 THEN <<>>
    ELSE <<"\n">> \o Head(values) \o Lines(Tail(values))

Prompt(heading, values) == <<heading>> \o Lines(values)

\* ------------------------------------------------------------- arithmetic
RECURSIVE Gcd(_, _)
Gcd(a, b) == IF b = 0 THEN a ELSE Gcd(b, a % b)

\* a / b (true division) as the fraction in lowest terms; b > 0, a >= 0
Frac(a, b) == LET g == Gcd(a, b) IN [num |-> a \div g, den |-> b \div g]

\* x > y and x = y on fractions
ScoreGt(x, y) == x.num * y.den > y.num * x.den
ScoreEq(x, y) == x.num * y.den = y.num * x.den

RECURSIVE SumSeq(_)
SumSeq(s) == IF Len(s) = 0 THEN 0 ELSE Head(s) + SumSeq(Tail(s))

\* ---------------------------------------------------------------- sorted()
\* sorted(..., reverse=True) is a stable descending sort: an element goes
\* behind every element already placed whose key is greater or equal.
\* variant: an element overtakes the placed elements of equal key
RECURSIVE InsertDescUnstable(_, _, _)
InsertDescUnstable(placed, x, keys) ==
    IF Len(placed) = 0 THEN <<x>>
    ELSE IF ~ScoreGt(keys[Head(placed)], keys[x])
         THEN <<x>> \o placed
         ELSE <<Head(placed)>> \o InsertDescUnstable(Tail(placed), x, keys)

RECURSIVE InsertDesc(_, _, _)
InsertDesc(placed, x, keys) ==
    IF Len(placed) = 0 THEN <<x>>
    ELSE IF ScoreGt(keys[x], keys[Head(placed)])
         THEN <<x>> \o placed
         ELSE <<Head(placed)>> \o InsertDesc(Tail(placed), x, keys)

RECURSIVE SortPrefixDesc(_, _)
SortPrefixDesc(keys, m) ==
    IF m = 0 THEN <<>>
    ELSE InsertDesc(SortPrefixDesc(keys, m - 1), m, keys)

\* sorted(range(len(keys)), key=lambda k: keys[k], reverse=True)
SortedIndicesDesc(keys) == SortPrefixDesc(keys, Len(keys))

\* ----------------------------------------------------------- RankingAgent
\* RankingAgent._determine_winner
_determine_winner(comparison_text, hyp1_id, hyp2_id) ==
    LET lower_text == Lower(comparison_text)
        h1 == <<"hypothesis", SP>> \o Str(hyp1_id)
        h2 == <<"hypothesis", SP>> \o Str(hyp2_id)
        hyp1_strength_count ==
            Count(lower_text, h1 \o <<SP, "is", SP, "more">>)
            + Count(lower_text, h1 \o <<SP, "has", SP, "higher">>)
        hyp2_strength_count ==
            Count(lower_text, h2 \o <<SP, "is", SP, "more">>)
            + Count(lower_text, h2 \o <<SP, "has", SP, "higher">>)
        last_sentences == Lower(Join(LastK(Split(comparison_text, "."), 3), "."))
    IN  IF Contains(lower_text, h1 \o <<SP, "is", SP, "superior">>)
           \/ Contains(lower_text, h1 \o <<SP, "is", SP, "stronger">>)
        THEN hyp1_id
        ELSE IF Contains(lower_text, h2 \o <<SP, "is", SP, "superior">>)
                \/ Contains(lower_text, h2 \o <<SP, "is", SP, "stronger">>)
        THEN hyp2_id
        ELSE IF hyp1_strength_count > hyp2_strength_count THEN hyp1_id
        ELSE IF hyp2_strength_count > hyp1_strength_count THEN hyp2_id
        ELSE IF Contains(last_sentences, h1) /\ ~Contains(last_sentences, h2)
        THEN hyp1_id
        ELSE IF Contains(last_sentences, h2) /\ ~Contains(last_sentences, h1)
        THEN hyp2_id
        ELSE 0

\* the five criteria of _extract_scores, in list order: dict key and tokens
criteria ==
    << [name |-> "novelty", toks |-> <<"novelty">>],
       [name |-> "plausibility", toks |-> <<"plausibility">>],
       [name |-> "relevance", toks |-> <<"relevance">>],
       [name |-> "testability", toks |-> <<"testability">>],
       [name |-> "potential impact", toks |-> <<"potential", SP, "impact">>] >>

\* the 30 patterns of one criterion, in list order
ScorePatterns(c) ==
    [i \in 1..30 |->
        IF i <= 10 THEN c \o <<":", SP>> \o Str(i)
        ELSE IF i <= 20 THEN c \o <<SP, "-", SP>> \o Str(i - 10)
        ELSE c \o <<":", SP>> \o Str(i - 20) \o <<"/", "1", "0">>]

\* s.replace("/10", "")
RECURSIVE RemoveSlashTen(_)
RemoveSlashTen(s) ==
    IF Len(s) = 0 THEN <<>>
    ELSE IF Len(s) >= 3 /\ SubSeq(s, 1, 3) = <<"/", "1", "0">>
         THEN RemoveSlashTen(SubSeq(s, 4, Len(s)))
         ELSE <<Head(s)>> \o RemoveSlashTen(Tail(s))

\* int(pattern.split(" ")[-1].replace("/10", ""))
PatternScore(pattern) ==
    LET parts == Split(pattern, SP)
    IN  IntOf(RemoveSlashTen(parts[Len(parts)]))

\* variant: the scan does not stop at the first pattern found, so the
\* last pattern found sets the score
RECURSIVE ScanKeepsLast(_, _, _, _)
ScanKeepsLast(patterns, low, i, last) ==
    IF i > Len(patterns) THEN last
    ELSE IF Contains(low, Lower(patterns[i]))
         THEN ScanKeepsLast(patterns, low, i + 1, i)
         ELSE ScanKeepsLast(patterns, low, i + 1, last)

FirstPatternKeepsLast(patterns, evaluation) ==
    ScanKeepsLast(patterns, Lower(evaluation), 1, 0)

\* the loop over patterns with its break: index of the first pattern found
\* in the evaluation, 0 when none is
RECURSIVE ScanPatterns(_, _, _)
ScanPatterns(patterns, low, i) ==
    IF i > Len(patterns) THEN 0
    ELSE IF Contains(low, Lower(patterns[i])) THEN i
    ELSE ScanPatterns(patterns, low, i + 1)

FirstPattern(patterns, evaluation) == ScanPatterns(patterns, Lower(evaluation), 1)

RECURSIVE ExtractFrom(_, _, _)
ExtractFrom(k, scores, evaluation) ==
    IF k > Len(criteria) THEN scores
    ELSE LET patterns == ScorePatterns(criteria[k].toks)
             first == FirstPattern(patterns, evaluation)
         IN  IF first = 0
             THEN ExtractFrom(k + 1, scores, evaluation)
             ELSE ExtractFrom(k + 1,
                      DictSet(scores, criteria[k].name, PatternScore(patterns[first])),
                      evaluation)

_extract_scores(evaluation) == ExtractFrom(1, <<>>, evaluation)

\* sum(scores.values())
RECURSIVE SumValues(_)
SumValues(d) ==
    IF DOMAIN d = {} THEN 0
    ELSE LET k == CHOOSE x \in DOMAIN d : TRUE
         IN  d[k] + SumValues([x \in (DOMAIN d) \ {k} |-> d[x]])

\* variant: the sum is divided by the number of criteria
OverallScoreFixedDenominator(scores) ==
    IF DOMAIN scores = {} THEN Frac(0, 1)
    ELSE Frac(SumValues(scores), Len(criteria))

\* sum(scores.values()) / len(scores) if scores else 0
OverallScore(scores) ==
    IF DOMAIN scores = {} THEN Frac(0, 1)
    ELSE Frac(SumValues(scores), Cardinality(DOMAIN scores))

\* ------------------------------------------------------------------- state
VARIABLES
    pc,                  \* control position of the running call
    passes,              \* number of process calls that have returned
    hypotheses,          \* the list argument of the running / last call
    wins,                \* _rank_by_pairwise_comparison: wins
    comparisons,         \* _rank_by_pairwise_comparison: comparisons
    scored_hypotheses,   \* _rank_by_scoring: scored_hypotheses
    result,              \* the list the last call returned
    response,            \* the response text handed to an extraction method
    extracted,           \* what the extraction method returned for it
    evaluated_hypotheses,\* ProximityAgent.process: evaluated_hypotheses
    relevant_hypotheses, \* filter_relevant_hypotheses: relevant_hypotheses
    evolved_hypotheses,  \* EvolutionAgent.process: evolved_hypotheses
    reviewed_hypotheses, \* ReflectionAgent.process: reviewed_hypotheses
    self_name,           \* BaseAgent.name of the agent instance
    conversation_history,\* BaseAgent.conversation_history
    error,               \* the exception the last call raised to its caller
    research_goal,       \* AICoScientist.research_goal
    self_hypotheses,     \* AICoScientist.hypotheses
    self_ranked_hypotheses, \* AICoScientist.ranked_hypotheses
    final_report,        \* AICoScientist.final_report
    log,                 \* stage lines the running / last call logged
    run,                 \* run_full_workflow: the step it stands at
    current_plan,        \* the plan dict the caller of update_plan holds
    research_plan,       \* the plan dict the supervisor returned last
    task_history         \* SupervisorAgent.task_history

vars == <<pc, passes, hypotheses, wins, comparisons, scored_hypotheses, result,
          response, extracted, evaluated_hypotheses, relevant_hypotheses,
          evolved_hypotheses, reviewed_hypotheses, self_name,
          conversation_history,
          error, research_goal, self_hypotheses, self_ranked_hypotheses,
          final_report, log, run, current_plan, research_plan, task_history>>

rankingVars == <<wins, comparisons, scored_hypotheses>>
extractionVars == <<response, extracted>>
proximityVars == <<evaluated_hypotheses, relevant_hypotheses>>
evolutionVars == <<evolved_hypotheses>>
reflectionVars == <<reviewed_hypotheses>>
workflowVars == <<research_goal, self_hypotheses, self_ranked_hypotheses,
                  final_report, log, run>>
planVars == <<current_plan, research_plan, task_history>>

\* what the methods of one role executor leave alone: the locals of the
\* other executors, the orchestrator and the supervisor's plans
outsideRanking == <<extractionVars, proximityVars, evolutionVars,
                    reflectionVars, workflowVars, planVars>>
outsideExtraction == <<rankingVars, proximityVars, evolutionVars,
                       reflectionVars, workflowVars, planVars>>
outsideProximity == <<rankingVars, extractionVars, evolutionVars,
                      reflectionVars, workflowVars, planVars>>
outsideEvolution == <<rankingVars, extractionVars, proximityVars,
                      reflectionVars, workflowVars, planVars>>
outsideReflection == <<rankingVars, extractionVars, proximityVars,
                       evolutionVars, workflowVars, planVars>>

\* ------------------------------------------------------------ input values
\* a hypothesis dict as GenerationAgent._parse_hypotheses builds it
GenHypothesis(i) ==
    [hypothesis |-> <<"claim", SP>> \o Str(i),
     rationale |-> <<"because", SP>> \o Str(i),
     evidence |-> <<>>,
     assumptions |-> <<>>,
     validation |-> <<>>]

GenList(n) == [i \in 1..n |-> GenHypothesis(i)]

\* a hypothesis dict with the keys ReflectionAgent, ProximityAgent and
\* EvolutionAgent read and _parse_evolved_hypothesis writes
StatementHypothesis(i) ==
    [statement |-> <<"claim", SP>> \o Str(i),
     rationale |-> <<"because", SP>> \o Str(i),
     evidence |-> <<"data">>,
     assumptions |-> <<>>,
     validation |-> <<"trial">>]

\* responses of the language model to a pairwise comparison prompt
ComparisonTexts ==
    { <<"Hypothesis", SP, "1", SP, "is", SP, "superior", ".">>,
      <<"Both", SP, "are", SP, "plausible", ".", SP,
        "Hypothesis", SP, "2", SP, "wins", ".">>,
      <<"Both", SP, "are", SP, "comparable", ".">> }

\* responses of the language model to a scoring prompt
EvaluationTexts ==
    { <<"Novelty", ":", SP, "8", "/", "1", "0", "\n",
        "Relevance", ":", SP, "6">>,
      <<"Novelty", ":", SP, "1", "0">>,
      <<"Plausibility", SP, "-", SP, "7">>,
      <<"No", SP, "scores", ".">> }

\* hyp.get('hypothesis', hyp.get('statement', 'No statement provided'))
StatementOf(hyp) ==
    DictGet(hyp, "hypothesis", DictGet(hyp, "statement", <<"No statement provided">>))

\* the prompt of lines 110-129
ComparisonPrompt(hyp1, hyp2) ==
    Prompt("HYPOTHESIS 1 / HYPOTHESIS 2", <<StatementOf(hyp1), StatementOf(hyp2)>>)

\* the prompt of lines 182-207
ScoringPrompt(hypothesis) ==
    Prompt("HYPOTHESIS TO EVALUATE",
           <<StatementOf(hypothesis),
             DictGet(hypothesis, "rationale", <<"No rationale provided">>),
             DictGet(hypothesis, "review", <<"No review available">>)>>)

\* hypothesis.copy() gives the executor a dict of its own, so the dict the
\* caller holds is what it was, whatever is written to the copy
\* variant: the fields are written to the caller's dict, no copy is made
CallersRecordAliased(hypothesis, written) == written

CallersRecord(hypothesis, written) == hypothesis

\* the caller's list after the executor wrote the copy of hypothesis idx
CallersList(hs, idx, written) ==
    [hs EXCEPT ![idx] = CallersRecord(hs[idx], written)]

\* -------------------------------------------- _rank_by_pairwise_comparison
\* the pairs (i, j), i < j, in the order of the two nested loops
RECURSIVE PairsFrom(_, _, _)
PairsFrom(i, j, n) ==
    IF i > n THEN <<>>
    ELSE IF j > n THEN PairsFrom(i + 1, i + 2, n)
    ELSE <<[i |-> i, j |-> j]>> \o PairsFrom(i, j + 1, n)

Pairs(n) == PairsFrom(1, 2, n)

\* enumerate() counts from 0 and the code stores rank + 1; position is
\* the 1-based place in the sorted list
\* variant: the enumerate() index is stored as it is
RankAtZeroBased(position) == position - 1

RankAt(position) == (position - 1) + 1

\* len([c for c in comparisons if c[h1_idx] == idx or c[h2_idx] == idx])
TotalComparisons(cs, idx) ==
    Cardinality({c \in 1..Len(cs) :
        cs[c].hypothesis1_idx = idx \/ cs[c].hypothesis2_idx = idx})

\* lines 153-165: sort the indices by wins and build the ranked copies
PairwiseRanked(hs, w, cs) ==
    LET ranked_indices ==
            SortedIndicesDesc([k \in 1..Len(w) |-> [num |-> w[k], den |-> 1]])
    IN  [p \in 1..Len(hs) |->
            LET idx == ranked_indices[p]
            IN  DictSet(DictSet(DictSet(hs[idx],
                    "rank", RankAt(p)),
                    "wins", w[idx]),
                    "total_comparisons", TotalComparisons(cs, idx))]

\* the caller's list when the pairwise pass returns: line 159 copies each
\* hypothesis before rank, wins and total_comparisons are written
CallersAfterPairwise(hs, w, cs) ==
    LET ranked_indices ==
            SortedIndicesDesc([k \in 1..Len(w) |-> [num |-> w[k], den |-> 1]])
        ranked == PairwiseRanked(hs, w, cs)
    IN  [i \in 1..Len(hs) |->
            CallersRecord(hs[i],
                ranked[CHOOSE p \in 1..Len(hs) : ranked_indices[p] = i])]

\* lines 145-148: the winner's win count goes up by one, a tie changes none
\* variant: a tie is counted as a win of the first hypothesis
WinsAfterTieCounts(w, pair, winner) ==
    IF winner = 2 THEN [w EXCEPT ![pair.j] = @ + 1]
    ELSE [w EXCEPT ![pair.i] = @ + 1]

WinsAfter(w, pair, winner) ==
    IF winner = 1 THEN [w EXCEPT ![pair.i] = @ + 1]
    ELSE IF winner = 2 THEN [w EXCEPT ![pair.j] = @ + 1]
    ELSE w

\* ------------------------------------------------------- _rank_by_scoring
\* lines 214-217: the scored copy of one hypothesis
ScoredHypothesis(hypothesis, evaluation) ==
    LET scores == _extract_scores(evaluation)
    IN  DictSet(DictSet(DictSet(hypothesis,
            "evaluation", evaluation),
            "scores", scores),
            "overall_score", OverallScore(scores))

\* lines 224-231: sort by overall score and number the ranks
ScoringRanked(scored) ==
    LET order == SortedIndicesDesc([k \in 1..Len(scored) |-> scored[k].overall_score])
    IN  [p \in 1..Len(scored) |-> DictSet(scored[order[p]], "rank", RankAt(p))]

\* ---------------------------------------------------- RankingAgent.process
\* process(reviewed_hypotheses, research_goal), up to its first request to
\* the language model (or to its return when it makes none)
RankingProcess(hs) ==
    /\ pc \in {"idle", "returned"}
    /\ self_name = "Ranking"
    /\ passes < MaxPasses
    /\ error' = "None"
    /\ IF Len(hs) <= PairwiseThreshold
       THEN /\ wins' = [k \in 1..Len(hs) |-> 0]
            /\ comparisons' = <<>>
            /\ scored_hypotheses' = <<>>
            /\ IF Len(Pairs(Len(hs))) = 0
               THEN /\ result' = PairwiseRanked(hs, wins', comparisons')
                    /\ hypotheses' = CallersAfterPairwise(hs, wins', comparisons')
                    /\ pc' = "returned"
                    /\ passes' = passes + 1
                    /\ UNCHANGED conversation_history
               ELSE /\ result' = <<>>
                    /\ hypotheses' = hs
                    /\ pc' = "pairwise"
                    /\ passes' = passes
                    /\ conversation_history' =
                          Requested(conversation_history,
                                    ComparisonPrompt(hs[Pairs(Len(hs))[1].i],
                                                     hs[Pairs(Len(hs))[1].j]))
       ELSE /\ scored_hypotheses' = <<>>
            /\ wins' = <<>>
            /\ comparisons' = <<>>
            /\ result' = <<>>
            /\ hypotheses' = hs
            /\ pc' = "scoring"
            /\ passes' = passes
            /\ conversation_history' =
                  Requested(conversation_history, ScoringPrompt(hs[1]))

\* a first call gets a list of new hypotheses
RankFresh ==
    /\ pc = "idle"
    /\ \E n \in 0..MaxHyps : RankingProcess(GenList(n))
    /\ UNCHANGED <<self_name, outsideRanking>>

\* a later call gets the leading records of the list the last call returned
RankAgain ==
    /\ pc = "returned"
    /\ \E m \in 1..MaxRerank :
        /\ m <= Len(result)
        /\ RankingProcess(SubSeq(result, 1, m))
    /\ UNCHANGED <<self_name, outsideRanking>>

\* one iteration of the loop over pairs (lines 106-151): the response to
\* the comparison prompt arrives; after the last pair the method returns
PairwiseCompare ==
    /\ pc = "pairwise"
    /\ \E comparison_result \in ComparisonTexts :
        LET pair == Pairs(Len(hypotheses))[Len(comparisons) + 1]
            winner == _determine_winner(comparison_result, 1, 2)
            comparison == [hypothesis1_idx |-> pair.i,
                           hypothesis2_idx |-> pair.j,
                           winner |-> winner,
                           reasoning |-> comparison_result]
            answered == clear_history(Answered(conversation_history,
                                               comparison_result))
        IN  /\ comparisons' = Append(comparisons, comparison)
            /\ wins' = WinsAfter(wins, pair, winner)
            /\ IF Len(comparisons') = Len(Pairs(Len(hypotheses)))
               THEN /\ result' = PairwiseRanked(hypotheses, wins', comparisons')
                    /\ hypotheses' =
                          CallersAfterPairwise(hypotheses, wins', comparisons')
                    /\ pc' = "returned"
                    /\ passes' = passes + 1
                    /\ conversation_history' = answered
               ELSE /\ UNCHANGED <<result, pc, passes, hypotheses>>
                    /\ conversation_history' =
                          LET next == Pairs(Len(hypotheses))[Len(comparisons') + 1]
                          IN  Requested(answered,
                                  ComparisonPrompt(hypotheses[next.i],
                                                   hypotheses[next.j]))
    /\ UNCHANGED <<scored_hypotheses, self_name, error>>
    /\ UNCHANGED outsideRanking

\* one iteration of the loop over hypotheses (lines 181-222): the response
\* to the scoring prompt arrives; after the last hypothesis the method returns
ScoreHypothesis ==
    /\ pc = "scoring"
    /\ \E evaluation \in EvaluationTexts :
        LET idx == Len(scored_hypotheses) + 1
            hypothesis == hypotheses[idx]
            scored_hypothesis == ScoredHypothesis(hypothesis, evaluation)
            answered == clear_history(Answered(conversation_history, evaluation))
        IN  /\ scored_hypotheses' = Append(scored_hypotheses, scored_hypothesis)
            /\ hypotheses' = CallersList(hypotheses, idx, scored_hypothesis)
            /\ IF Len(scored_hypotheses') = Len(hypotheses)
               THEN /\ result' = ScoringRanked(scored_hypotheses')
                    /\ pc' = "returned"
                    /\ passes' = passes + 1
                    /\ conversation_history' = answered
               ELSE /\ UNCHANGED <<result, pc, passes>>
                    /\ conversation_history' =
                          Requested(answered, ScoringPrompt(hypotheses[idx + 1]))
    /\ UNCHANGED <<wins, comparisons, self_name, error>>
    /\ UNCHANGED outsideRanking

\* the values of AgentFactory.agent_classes: the name each class hands to
\* BaseAgent.__init__
AgentNames ==
    {"Generation", "Reflection", "Ranking", "Evolution", "Proximity",
     "MetaReview", "Supervisor"}

\* Python's None, where a text or a dict is expected; `not x` holds for it
None == <<>>

\* AICoScientist.__init__ lines 82-86, before any call
InitWorkflowVars ==
    /\ research_goal = None
    /\ self_hypotheses = <<>>
    /\ self_ranked_hypotheses = <<>>
    /\ final_report = None
    /\ log = <<>>
    /\ run = [step |-> "none", iterations |-> 0]

\* SupervisorAgent.__init__ line 53, before any plan was made
InitPlanVars ==
    /\ current_plan = <<>>
    /\ research_plan = <<>>
    /\ task_history = <<>>

\* a newly constructed agent: no call made, nothing accumulated
InitAgent ==
    /\ pc = "idle"
    /\ passes = 0
    /\ hypotheses = <<>>
    /\ wins = <<>>
    /\ comparisons = <<>>
    /\ scored_hypotheses = <<>>
    /\ result = <<>>
    /\ response = <<>>
    /\ extracted = <<>>
    /\ evaluated_hypotheses = <<>>
    /\ relevant_hypotheses = <<>>
    /\ evolved_hypotheses = <<>>
    /\ reviewed_hypotheses = <<>>
    /\ self_name \in AgentNames
    /\ conversation_history = <<SystemMessage(self_name)>>
    /\ error = "None"
    /\ InitWorkflowVars
    /\ InitPlanVars

InitRanking == InitAgent /\ self_name = "Ranking"

NextRanking == RankFresh \/ RankAgain \/ PairwiseCompare \/ ScoreHypothesis

SpecRanking == InitRanking /\ [][NextRanking]_vars

\* ------------------------------------------------------ ranking properties
Returned == pc = "returned"
ByPairwise == Len(hypotheses) <= PairwiseThreshold

\* the input position of a returned record (inputs differ in their statement)
OrigIndex(rec) ==
    CHOOSE i \in 1..Len(hypotheses) : hypotheses[i].hypothesis = rec.hypothesis

\* the key the pass sorted by
RankKey(rec) ==
    IF ByPairwise THEN [num |-> rec.wins, den |-> 1] ELSE rec.overall_score

\* C1: a ranking pass over n hypotheses returns n records, one per input
\* hypothesis, whose ranks are exactly 1..n, without duplicates, listed in
\* ascending rank order.
C1_RanksContiguous ==
    Returned =>
        /\ Len(result) = Len(hypotheses)
        /\ \A i \in 1..Len(hypotheses) :
              Cardinality({p \in 1..Len(result) :
                  result[p].hypothesis = hypotheses[i].hypothesis}) = 1
        /\ {result[p].rank : p \in 1..Len(result)} = 1..Len(hypotheses)
        /\ \A p, q \in 1..Len(result) : p < q => result[p].rank < result[q].rank

C1_Witness ==
    /\ Returned
    /\ Len(hypotheses) = PairwiseThreshold
    /\ Len(result) = PairwiseThreshold
    /\ result[1].hypothesis # hypotheses[1].hypothesis

\* C2: a pairwise pass judges each of the C(n,2) unordered pairs exactly
\* once, a judgment with winner 1 or 2 adds one win to that hypothesis and a
\* tie adds none, so the wins of the returned records sum to the number of
\* judgments that are not ties.
C2_WinsConserved ==
    (Returned /\ ByPairwise) =>
        LET n == Len(hypotheses)
            cs == 1..Len(comparisons)
        IN  /\ Len(comparisons) = (n * (n - 1)) \div 2
            /\ \A i, j \in 1..n : i < j =>
                  Cardinality({c \in cs :
                      /\ comparisons[c].hypothesis1_idx = i
                      /\ comparisons[c].hypothesis2_idx = j}) = 1
            /\ \A c \in cs : comparisons[c].winner \in {0, 1, 2}
            /\ \A p \in 1..Len(result) :
                  result[p].wins = Cardinality({c \in cs :
                      \/ /\ comparisons[c].hypothesis1_idx = OrigIndex(result[p])
                         /\ comparisons[c].winner = 1
                      \/ /\ comparisons[c].hypothesis2_idx = OrigIndex(result[p])
                         /\ comparisons[c].winner = 2})
            /\ SumSeq([p \in 1..Len(result) |-> result[p].wins])
                  = Cardinality({c \in cs : comparisons[c].winner # 0})

C2_Witness ==
    /\ Returned
    /\ Len(hypotheses) = 4
    /\ Len(comparisons) = 6
    /\ \E c \in 1..Len(comparisons) : comparisons[c].winner = 0
    /\ \E c \in 1..Len(comparisons) : comparisons[c].winner = 2
    /\ SumSeq([p \in 1..Len(result) |-> result[p].wins]) = 4

\* C3: the returned order is a stable descending sort by the ranking key:
\* strictly more wins (or a strictly higher overall score) means a lower rank
\* number, and of two hypotheses with equal keys the one earlier in the input
\* has the lower rank number.
C3_StableDescending ==
    Returned =>
        \A p, q \in 1..Len(result) :
            /\ ScoreGt(RankKey(result[p]), RankKey(result[q]))
                  => result[p].rank < result[q].rank
            /\ (/\ ScoreEq(RankKey(result[p]), RankKey(result[q]))
                /\ OrigIndex(result[p]) < OrigIndex(result[q]))
                  => result[p].rank < result[q].rank

C3_Witness ==
    /\ Returned
    /\ ~ByPairwise
    /\ \E p \in 1..(Len(result) - 1) :
          /\ ScoreEq(result[p].overall_score, result[p + 1].overall_score)
          /\ result[p].evaluation # result[p + 1].evaluation
    /\ \E p \in 1..(Len(result) - 1) :
          /\ ScoreGt(result[p].overall_score, result[p + 1].overall_score)
          /\ OrigIndex(result[p]) > OrigIndex(result[p + 1])

\* C4: after any ranking pass every returned record carries the fields of
\* that pass's method only: wins and total_comparisons without overall_score
\* after a pairwise pass, overall_score without wins and total_comparisons
\* after a scoring pass.
C4_OneMethodsFields ==
    Returned =>
        \A p \in 1..Len(result) :
            IF ByPairwise
            THEN /\ {"wins", "total_comparisons"} \subseteq DOMAIN result[p]
                 /\ "overall_score" \notin DOMAIN result[p]
            ELSE /\ "overall_score" \in DOMAIN result[p]
                 /\ "wins" \notin DOMAIN result[p]
                 /\ "total_comparisons" \notin DOMAIN result[p]

\* ------------------------------------------ score extraction on its own
\* the label of a criterion as the scoring prompt writes it
CriterionCap(k) ==
    CASE k = 1 -> <<"Novelty">>
      [] k = 2 -> <<"Plausibility">>
      [] k = 3 -> <<"Relevance">>
      [] k = 4 -> <<"Testability">>
      [] k = 5 -> <<"Potential", SP, "impact">>

\* what a response says about criterion k: nothing, or one of three wordings
ScoreBlock(k, kind) ==
    LET c == criteria[k].toks
    IN  CASE kind = 0 -> <<>>
          [] kind = 1 -> CriterionCap(k) \o <<":", SP, "1", "0", "\n">>
          [] kind = 2 -> c \o <<SP, "-", SP, "7", "\n">>
          [] kind = 3 -> c \o <<SP, "-", SP, "2", "\n">>
                         \o c \o <<":", SP, "9", "/", "1", "0", "\n">>
                         \o c \o <<":", SP, "4", "\n">>

ScoreBlockKinds == 0..3

\* the responses to a scoring prompt: one block per criterion, in order
ScoreTexts ==
    { ScoreBlock(1, f[1]) \o ScoreBlock(2, f[2]) \o ScoreBlock(3, f[3])
        \o ScoreBlock(4, f[4]) \o ScoreBlock(5, f[5]) :
      f \in [1..5 -> ScoreBlockKinds] }

InitScores ==
    /\ pc = "idle"
    /\ passes = 0
    /\ hypotheses = <<>>
    /\ wins = <<>>
    /\ comparisons = <<>>
    /\ scored_hypotheses = <<>>
    /\ result = <<>>
    /\ response \in ScoreTexts
    /\ extracted = <<>>
    /\ evaluated_hypotheses = <<>>
    /\ relevant_hypotheses = <<>>
    /\ evolved_hypotheses = <<>>
    /\ reviewed_hypotheses = <<>>
    /\ self_name = "Ranking"
    /\ conversation_history = <<SystemMessage(self_name)>>
    /\ error = "None"
    /\ InitWorkflowVars
    /\ InitPlanVars

\* _rank_by_scoring lines 212-217 on one response
ExtractScores ==
    /\ pc = "idle"
    /\ LET scores == _extract_scores(response)
       IN  extracted' = [scores |-> scores, overall_score |-> OverallScore(scores)]
    /\ pc' = "returned"
    /\ UNCHANGED <<passes, hypotheses, result, response>>
    /\ UNCHANGED <<self_name, conversation_history, error>>
    /\ UNCHANGED outsideExtraction

NextScores == ExtractScores

SpecScores == InitScores /\ [][NextScores]_vars

\* the criteria whose label occurs in the response
LabelsIn(text) ==
    {k \in 1..Len(criteria) : Contains(Lower(text), criteria[k].toks)}

ScoreOrZero(scores, k) ==
    IF criteria[k].name \in DOMAIN scores THEN scores[criteria[k].name] ELSE 0

\* C5: the overall score is the sum of the extracted criterion scores divided
\* by the number of criteria extracted, whichever subset of the five criteria
\* is found, and 0 when none is found.
C5_MeanOfFound ==
    Returned =>
        LET found == LabelsIn(response)
            total == SumSeq([k \in 1..Len(criteria) |->
                                ScoreOrZero(extracted.scores, k)])
        IN  /\ DOMAIN extracted.scores = {criteria[k].name : k \in found}
            /\ extracted.overall_score.den > 0
            /\ IF found = {}
               THEN extracted.overall_score.num = 0
               ELSE extracted.overall_score.num * Cardinality(found)
                        = total * extracted.overall_score.den

C5_Witness ==
    /\ Returned
    /\ DOMAIN extracted.scores = {"novelty", "relevance"}
    /\ extracted.scores["novelty"] = 7
    /\ extracted.scores["relevance"] = 4
    /\ extracted.overall_score = [num |-> 11, den |-> 2]

\* the n in 1..10 for which the response contains label, separator, n
NumbersAfter(text, k, separator) ==
    {n \in 1..10 :
        Contains(Lower(text), criteria[k].toks \o separator \o Str(n))}

\* C6: the extracted score of a criterion is the smallest n in 1..10 for
\* which "{label}: {n}" occurs in the response (so "{label}: 10" yields 1);
\* every extracted score is an integer in 1..10, and a criterion of which no
\* pattern occurs is absent from the result.
C6_FirstMatchAscending ==
    Returned =>
        \A k \in 1..Len(criteria) :
            LET colon == NumbersAfter(response, k, <<":", SP>>)
                dash == NumbersAfter(response, k, <<SP, "-", SP>>)
                name == criteria[k].name
            IN  /\ colon # {} =>
                      /\ name \in DOMAIN extracted.scores
                      /\ \A n \in colon : extracted.scores[name] <= n
                      /\ extracted.scores[name] \in colon
                /\ name \in DOMAIN extracted.scores =>
                      extracted.scores[name] \in 1..10
                /\ (colon = {} /\ dash = {}) =>
                      name \notin DOMAIN extracted.scores

C6_Witness ==
    /\ Returned
    /\ Contains(Lower(response), <<"novelty", ":", SP, "1", "0">>)
    /\ extracted.scores["novelty"] = 1
    /\ Contains(Lower(response), <<"relevance", ":", SP, "9">>)
    /\ extracted.scores["relevance"] = 4

\* --------------------------------------------------------- ProximityAgent
\* score_patterns (lines 146-151), each formatted with the number i
ProximityPattern(t, i) ==
    CASE t = 1 -> <<"overall", SP, "proximity", SP, "score", ":", SP>> \o Str(i)
      [] t = 2 -> <<"overall", SP, "proximity", SP, "score", SP, "of", SP>> \o Str(i)
      [] t = 3 -> <<"proximity", SP, "score", ":", SP>> \o Str(i)
      [] t = 4 -> <<"overall", SP, "score", ":", SP>> \o Str(i)

\* the inner loop `for i in range(1, 11)` with its break: the first i whose
\* pattern occurs in the text, 0 when none does
RECURSIVE ScanNumbers(_, _, _)
ScanNumbers(low, t, i) ==
    IF i > 10 THEN 0
    ELSE IF Contains(low, Lower(ProximityPattern(t, i))) THEN i
    ELSE ScanNumbers(low, t, i + 1)

\* the outer loop `for pattern in score_patterns` (lines 153-158): the break
\* leaves the inner loop only, so every template is scanned and a later
\* template that matches overwrites the score
RECURSIVE ScanTemplates(_, _, _)
ScanTemplates(low, t, proximity_score) ==
    IF t > 4 THEN proximity_score
    ELSE LET i == ScanNumbers(low, t, 1)
         IN  ScanTemplates(low, t + 1, IF i = 0 THEN proximity_score ELSE i)

NegativePhrase(low) ==
    Contains(low, <<"not", SP, "relevant">>) \/ Contains(low, <<"irrelevant">>)

PositivePhrase(low) ==
    Contains(low, <<"highly", SP, "relevant">>)
        \/ Contains(low, <<"very", SP, "relevant">>)

\* variant: the two overrides are applied in the other order
RelevanceNegativeLast(low, proximity_score) ==
    LET by_score == proximity_score >= RelevanceCutoff
        after_positive == IF PositivePhrase(low) THEN TRUE ELSE by_score
    IN  IF NegativePhrase(low) THEN FALSE ELSE after_positive

\* lines 160-167: the default by the score, then the negative override, then
\* the positive override
Relevance(low, proximity_score) ==
    LET by_score == proximity_score >= RelevanceCutoff
        after_negative == IF NegativePhrase(low) THEN FALSE ELSE by_score
    IN  IF PositivePhrase(low) THEN TRUE ELSE after_negative

\* ProximityAgent._extract_proximity_info
_extract_proximity_info(evaluation) ==
    LET low == Lower(evaluation)
        proximity_score == ScanTemplates(low, 1, DefaultProximityScore)
    IN  [proximity_score |-> proximity_score,
         is_relevant |-> Relevance(low, proximity_score)]

\* ProximityAgent.filter_relevant_hypotheses
filter_relevant_hypotheses(evaluated, threshold) ==
    SelectSeq(evaluated, LAMBDA h : DictGet(h, "proximity_score", 0) >= threshold)

\* ------------------------------------- proximity extraction on its own
\* the sentence of a response that states a score: template t with number i
StatedScore(t, i) ==
    CASE t = 1 -> <<"Overall", SP, "proximity", SP, "score", ":", SP>> \o Str(i)
      [] t = 2 -> <<"an", SP, "overall", SP, "proximity", SP, "score", SP, "of", SP>>
                      \o Str(i)
      [] t = 3 -> <<"Proximity", SP, "Score", ":", SP>> \o Str(i)
      [] t = 4 -> <<"Overall", SP, "score", ":", SP>> \o Str(i)

\* the sentences of a response that give a verdict in words
VerdictPhrase(v) ==
    CASE v = 1 -> <<"This", SP, "is", SP, "not", SP, "relevant", ".">>
      [] v = 2 -> <<"Largely", SP, "irrelevant", ".">>
      [] v = 3 -> <<"Highly", SP, "relevant", ".">>
      [] v = 4 -> <<"A", SP, "very", SP, "relevant", SP, "idea", ".">>

RECURSIVE VerdictText(_, _)
VerdictText(vs, v) ==
    IF v > 4 THEN <<>>
    ELSE (IF v \in vs THEN VerdictPhrase(v) \o <<SP>> ELSE <<>>)
             \o VerdictText(vs, v + 1)

\* the responses to a proximity prompt: at most one stated score followed by
\* any choice of the verdict sentences
ProximityTexts ==
    { VerdictText(vs, 1) : vs \in SUBSET (1..4) }
    \cup
    { StatedScore(t, i) \o <<".", SP>> \o VerdictText(vs, 1) :
        t \in 1..4, i \in 1..10, vs \in SUBSET (1..4) }

InitProximityInfo ==
    /\ pc = "idle"
    /\ passes = 0
    /\ hypotheses = <<>>
    /\ wins = <<>>
    /\ comparisons = <<>>
    /\ scored_hypotheses = <<>>
    /\ result = <<>>
    /\ response \in ProximityTexts
    /\ extracted = <<>>
    /\ evaluated_hypotheses = <<>>
    /\ relevant_hypotheses = <<>>
    /\ evolved_hypotheses = <<>>
    /\ reviewed_hypotheses = <<>>
    /\ self_name = "Proximity"
    /\ conversation_history = <<SystemMessage(self_name)>>
    /\ error = "None"
    /\ InitWorkflowVars
    /\ InitPlanVars

\* _extract_proximity_info on one response
ExtractProximityInfo ==
    /\ pc = "idle"
    /\ extracted' = _extract_proximity_info(response)
    /\ pc' = "returned"
    /\ UNCHANGED <<passes, hypotheses, result, response>>
    /\ UNCHANGED <<self_name, conversation_history, error>>
    /\ UNCHANGED outsideExtraction

NextProximityInfo == ExtractProximityInfo

SpecProximityInfo == InitProximityInfo /\ [][NextProximityInfo]_vars

SaysNegative(text) ==
    \/ Contains(Lower(text), <<"not", SP, "relevant">>)
    \/ Contains(Lower(text), <<"irrelevant">>)

SaysPositive(text) ==
    \/ Contains(Lower(text), <<"highly", SP, "relevant">>)
    \/ Contains(Lower(text), <<"very", SP, "relevant">>)

\* C7: without an override phrase is_relevant equals (proximity_score >= 6);
\* a response with "not relevant" or "irrelevant" and no positive phrase gives
\* is_relevant = false whatever the score; a response with "highly relevant"
\* or "very relevant" gives is_relevant = true whatever the score.
C7_OverridePrecedence ==
    Returned =>
        /\ (~SaysNegative(response) /\ ~SaysPositive(response))
              => (extracted.is_relevant <=> extracted.proximity_score >= 6)
        /\ (SaysNegative(response) /\ ~SaysPositive(response))
              => extracted.is_relevant = FALSE
        /\ SaysPositive(response) => extracted.is_relevant = TRUE

C7_Witness ==
    /\ Returned
    /\ extracted.proximity_score = 3
    /\ SaysPositive(response)
    /\ SaysNegative(response)
    /\ extracted.is_relevant = TRUE

\* -------------------------------------------------- ProximityAgent.process
\* the lists handed to process: hypothesis i has either shape
ProximityInputs ==
    UNION { { [i \in 1..n |-> IF shape[i] = "statement"
                              THEN StatementHypothesis(i)
                              ELSE GenHypothesis(i)] :
              shape \in [1..n -> {"statement", "hypothesis"}] } :
            n \in 0..MaxBatch }

\* responses of the language model to the proximity prompt of process
ProximityResponses ==
    { StatedScore(1, 8) \o <<".", SP>> \o VerdictText({1}, 1),
      StatedScore(3, 3) \o <<".", SP>> \o VerdictText({3}, 1),
      StatedScore(4, 7) \o <<".">>,
      StatedScore(2, 4) \o <<".">>,
      <<"Hard", SP, "to", SP, "say", ".">> }

\* thresholds a caller passes to filter_relevant_hypotheses
Thresholds == {DefaultThreshold, RelevanceCutoff}

\* lines 97-103: the evaluated copy of one hypothesis
EvaluatedHypothesis(hypothesis, proximity_evaluation) ==
    LET info == _extract_proximity_info(proximity_evaluation)
    IN  DictSet(DictSet(DictSet(hypothesis,
            "proximity_evaluation", proximity_evaluation),
            "proximity_score", info.proximity_score),
            "is_relevant", info.is_relevant)

\* variant: process filters before it returns
ProcessResultFiltered(evaluated) ==
    filter_relevant_hypotheses(evaluated, DefaultThreshold)

\* lines 110-111: process returns the whole evaluated list
ProcessResult(evaluated) == evaluated

\* line 68: hypothesis['statement'] raises KeyError on a dict without it
ReadsStatement(hypothesis) == "statement" \in DOMAIN hypothesis

\* the prompt of lines 71-92
ProximityPrompt(hypothesis) ==
    Prompt("HYPOTHESIS TO EVALUATE",
           <<hypothesis.statement, DictGet(hypothesis, "rationale", <<>>)>>)

\* process(hypotheses, research_goal) up to its first request to the
\* language model, to its return (empty list) or to the KeyError of line 68
ProximityProcess ==
    /\ pc = "idle"
    /\ self_name = "Proximity"
    /\ \E hs \in ProximityInputs :
        /\ hypotheses' = hs
        /\ evaluated_hypotheses' = <<>>
        /\ IF Len(hs) = 0
           THEN /\ result' = ProcessResult(<<>>)
                /\ pc' = "returned"
                /\ passes' = passes + 1
                /\ error' = "None"
                /\ UNCHANGED conversation_history
           ELSE IF ReadsStatement(hs[1])
           THEN /\ result' = <<>>
                /\ pc' = "proximity"
                /\ passes' = passes
                /\ error' = "None"
                /\ conversation_history' =
                      Requested(conversation_history, ProximityPrompt(hs[1]))
           ELSE /\ result' = <<>>
                /\ pc' = "raised"
                /\ passes' = passes
                /\ error' = "KeyError"
                /\ UNCHANGED conversation_history
    /\ UNCHANGED <<relevant_hypotheses, self_name>>
    /\ UNCHANGED outsideProximity

\* one iteration of the loop (lines 64-108): the response arrives and the
\* evaluated copy is appended; then the next iteration starts (and may raise
\* at line 68) or the method returns
ProximityEvaluate ==
    /\ pc = "proximity"
    /\ \E proximity_evaluation \in ProximityResponses :
        LET idx == Len(evaluated_hypotheses) + 1
            evaluated_hypothesis ==
                EvaluatedHypothesis(hypotheses[idx], proximity_evaluation)
            answered == clear_history(Answered(conversation_history,
                                               proximity_evaluation))
        IN  /\ evaluated_hypotheses' =
                  Append(evaluated_hypotheses, evaluated_hypothesis)
            /\ hypotheses' = CallersList(hypotheses, idx, evaluated_hypothesis)
            /\ IF idx = Len(hypotheses)
               THEN /\ result' = ProcessResult(evaluated_hypotheses')
                    /\ pc' = "returned"
                    /\ passes' = passes + 1
                    /\ conversation_history' = answered
                    /\ UNCHANGED error
               ELSE IF ReadsStatement(hypotheses[idx + 1])
               THEN /\ UNCHANGED <<result, pc, passes, error>>
                    /\ conversation_history' =
                          Requested(answered, ProximityPrompt(hypotheses[idx + 1]))
               ELSE /\ UNCHANGED <<result, passes>>
                    /\ pc' = "raised"
                    /\ error' = "KeyError"
                    /\ conversation_history' = answered
    /\ UNCHANGED <<relevant_hypotheses, self_name>>
    /\ UNCHANGED outsideProximity

\* the caller hands the list process returned to filter_relevant_hypotheses
FilterRelevant ==
    /\ pc = "returned"
    /\ self_name = "Proximity"
    /\ \E threshold \in Thresholds :
        relevant_hypotheses' = filter_relevant_hypotheses(result, threshold)
    /\ pc' = "filtered"
    /\ UNCHANGED <<passes, hypotheses, result, evaluated_hypotheses>>
    /\ UNCHANGED <<self_name, conversation_history, error>>
    /\ UNCHANGED outsideProximity

InitProximity == InitAgent /\ self_name = "Proximity"

NextProximity == ProximityProcess \/ ProximityEvaluate \/ FilterRelevant

SpecProximity == InitProximity /\ [][NextProximity]_vars

Filtered == pc = "filtered"

C9_FilterKeyedOnFlag ==
    Filtered =>
        /\ \A i \in 1..Len(result) :
              (\A j \in 1..Len(relevant_hypotheses) :
                    relevant_hypotheses[j] # result[i])
                 <=> (result[i].is_relevant = FALSE)
        /\ Len(result) = Len(hypotheses)

\* ---------------------------------------------------------- EvolutionAgent
\* the paragraph break "\n\n" that _parse_evolved_hypothesis splits on
PARA == "\n\n"

IsSpace(t) == t \in {SP, "\n", PARA}

\* str.strip()
RECURSIVE Strip(_)
Strip(s) ==
    IF Len(s) = 0 THEN s
    ELSE IF IsSpace(Head(s)) THEN Strip(Tail(s))
    ELSE IF IsSpace(s[Len(s)]) THEN Strip(SubSeq(s, 1, Len(s) - 1))
    ELSE s

\* section.split(':', 1)[1].strip(), for a section that has a colon
AfterColon(section) ==
    LET at == CHOOSE i \in 1..Len(section) :
                  section[i] = ":" /\ \A j \in 1..(i - 1) : section[j] # ":"
    IN  Strip(SubSeq(section, at + 1, Len(section)))

\* lines 196-208: the if/elif chain applied to one section
ParseSection(evolved_hypothesis, section) ==
    LET lower_section == Lower(section)
        colon == Contains(section, <<":">>)
        has(word) == Contains(lower_section, <<word>>) /\ colon
    IN  IF has("statement")
        THEN DictSet(evolved_hypothesis, "statement", AfterColon(section))
        ELSE IF has("rationale")
        THEN DictSet(evolved_hypothesis, "rationale", AfterColon(section))
        ELSE IF has("evidence")
        THEN DictSet(evolved_hypothesis, "evidence", AfterColon(section))
        ELSE IF has("assumptions")
        THEN DictSet(evolved_hypothesis, "assumptions", AfterColon(section))
        ELSE IF has("validation")
        THEN DictSet(evolved_hypothesis, "validation", AfterColon(section))
        ELSE evolved_hypothesis

RECURSIVE ParseSections(_, _)
ParseSections(evolved_hypothesis, sections) ==
    IF Len(sections) = 0 THEN evolved_hypothesis
    ELSE ParseSections(ParseSection(evolved_hypothesis, Head(sections)),
                       Tail(sections))

\* lines 175-182: the dict every evolved hypothesis starts from
EmptyEvolved(evolution_text) ==
    [statement |-> <<>>, rationale |-> <<>>, evidence |-> <<>>,
     assumptions |-> <<>>, validation |-> <<>>,
     evolution_text |-> evolution_text]

\* line 188: the keys removed from the copy of the original
RemovedKeys ==
    {"review", "assessment_summary", "rank", "scores", "evaluation",
     "overall_score", "wins"}

\* _parse_evolved_hypothesis(evolution_text, original_hypothesis); the
\* original is <<>> when the argument is left out (None)
_parse_evolved_hypothesis(evolution_text, original_hypothesis) ==
    LET base == EmptyEvolved(evolution_text)
        start == IF DOMAIN original_hypothesis # {}
                 THEN DictDel(base @@ original_hypothesis, RemovedKeys)
                 ELSE base
    IN  ParseSections(start, Split(evolution_text, PARA))

\* key=lambda h: h.get('rank', float('inf')): a has a smaller key than b
RankLess(a, b) ==
    /\ "rank" \in DOMAIN a
    /\ ("rank" \in DOMAIN b => a.rank < b.rank)

\* sorted() is stable and ascending: an element goes behind every element
\* already placed whose key is smaller or equal
RECURSIVE InsertByRank(_, _)
InsertByRank(placed, x) ==
    IF Len(placed) = 0 THEN <<x>>
    ELSE IF RankLess(x, Head(placed)) THEN <<x>> \o placed
    ELSE <<Head(placed)>> \o InsertByRank(Tail(placed), x)

RECURSIVE SortPrefixByRank(_, _)
SortPrefixByRank(hs, m) ==
    IF m = 0 THEN <<>>
    ELSE InsertByRank(SortPrefixByRank(hs, m - 1), hs[m])

\* variant: the list is taken in the order it was given
SortedByRankSkipped(ranked_hypotheses) == ranked_hypotheses

\* line 64: sorted(ranked_hypotheses, key=rank)
SortedByRank(ranked_hypotheses) ==
    SortPrefixByRank(ranked_hypotheses, Len(ranked_hypotheses))

\* min()
Min(a, b) == IF a <= b THEN a ELSE b

\* lines 66-68: top_hypotheses
TopHypotheses(ranked_hypotheses) ==
    LET sorted_hypotheses == SortedByRank(ranked_hypotheses)
        top_k == Min(TopKLimit, Len(sorted_hypotheses))
    IN  SubSeq(sorted_hypotheses, 1, top_k)

\* lines 85-89: the prompt reads these keys with [] and raises KeyError
\* when one is missing
ReadsFields(hypothesis) ==
    {"statement", "rationale", "evidence", "assumptions", "validation"}
        \subseteq DOMAIN hypothesis

\* lines 109-111: the individually refined variant of one hypothesis
IndividualRefinement(evolution_response, hypothesis) ==
    DictSet(DictSet(_parse_evolved_hypothesis(evolution_response, hypothesis),
        "original_rank", DictGet(hypothesis, "rank", "None")),
        "evolution_type", "individual_refinement")

\* lines 152-155: the hybrid of the two leading hypotheses
Combination(hybrid_response, hyp1, hyp2) ==
    DictSet(DictSet(DictSet(_parse_evolved_hypothesis(hybrid_response, <<>>),
        "original_ranks", <<DictGet(hyp1, "rank", "None"),
                            DictGet(hyp2, "rank", "None")>>),
        "evolution_type", "hypothesis_combination"),
        "parent_hypotheses", <<hyp1.statement, hyp2.statement>>)

\* responses of the language model to an evolution or combination prompt
EvolutionResponses ==
    { <<"Statement", ":", SP, "sharper", SP, "claim", PARA,
        "Rationale", ":", SP, "firmer", PARA,
        "Validation", ":", SP, "new", SP, "trial">>,
      <<"Rationale", ":", SP, "the", SP, "statement", SP, "holds">>,
      <<"No", SP, "change", SP, "needed", ".">> }

\* a list as a pairwise pass returns it for reviewed hypotheses of which the
\* earlier always won: ranks 1..n in input order
RankedList(n, shape) ==
    LET reviewed == [i \in 1..n |->
            DictSet(IF shape = "statement" THEN StatementHypothesis(i)
                    ELSE GenHypothesis(i),
                    "review", <<"sound">>)]
        cs == [c \in 1..Len(Pairs(n)) |->
                  [hypothesis1_idx |-> Pairs(n)[c].i,
                   hypothesis2_idx |-> Pairs(n)[c].j,
                   winner |-> 1,
                   reasoning |-> <<>>]]
    IN  PairwiseRanked(reviewed, [k \in 1..n |-> n - k], cs)

\* the ranked lists handed to process, in every order of their records
EvolutionInputs ==
    UNION { { [i \in 1..n |-> RankedList(n, shape)[order[i]]] :
              order \in Permutations(1..n), shape \in {"statement", "hypothesis"} } :
            n \in 0..MaxEvolve }

\* the prompt of lines 81-104; the review is cut to 1000 characters, more
\* than any review of this model has
EvolutionPrompt(hypothesis) ==
    Prompt("HYPOTHESIS TO EVOLVE",
           <<hypothesis.statement, hypothesis.rationale, hypothesis.evidence,
             hypothesis.assumptions, hypothesis.validation,
             DictGet(hypothesis, "review", <<>>)>>)

\* the prompt of lines 124-147
CombinationPrompt(hyp1, hyp2) ==
    Prompt("HYPOTHESIS 1 / HYPOTHESIS 2",
           <<Str(DictGet(hyp1, "rank", 1)), hyp1.statement, hyp1.rationale,
             Str(DictGet(hyp2, "rank", 2)), hyp2.statement, hyp2.rationale>>)

\* process(ranked_hypotheses, research_goal) up to its first request to the
\* language model, to its return (empty list) or to a KeyError of the prompt
EvolutionStart(ranked_hypotheses) ==
    LET top_hypotheses == TopHypotheses(ranked_hypotheses)
    IN  /\ self_name = "Evolution"
        /\ hypotheses' = ranked_hypotheses
        /\ evolved_hypotheses' = <<>>
        /\ result' = <<>>
        /\ IF Len(top_hypotheses) = 0
           THEN /\ pc' = "returned"
                /\ passes' = passes + 1
                /\ error' = "None"
                /\ UNCHANGED conversation_history
           ELSE IF ReadsFields(top_hypotheses[1])
           THEN /\ pc' = "evolution"
                /\ passes' = passes
                /\ error' = "None"
                /\ conversation_history' =
                      Requested(conversation_history,
                                EvolutionPrompt(top_hypotheses[1]))
           ELSE /\ pc' = "raised"
                /\ passes' = passes
                /\ error' = "KeyError"
                /\ UNCHANGED conversation_history
        /\ UNCHANGED self_name
        /\ UNCHANGED outsideEvolution

\* the first call on a new agent
EvolutionProcess ==
    /\ pc = "idle"
    /\ \E ranked_hypotheses \in EvolutionInputs :
          EvolutionStart(ranked_hypotheses)

\* a later call on the same agent (AgentFactory.get_agent hands out the
\* cached instance) with a short ranked list
EvolveAgain ==
    /\ pc = "returned"
    /\ passes < MaxPasses
    /\ \E ranked_hypotheses \in EvolutionInputs :
          /\ Len(ranked_hypotheses) <= MaxRerank
          /\ EvolutionStart(ranked_hypotheses)

\* one iteration of the first loop (lines 73-116): the response arrives and
\* the refined variant is appended; then the next iteration starts, or the
\* combination prompt is sent (lines 119-149), or the method returns
EvolveIndividually ==
    /\ pc = "evolution"
    /\ \E evolution_response \in EvolutionResponses :
        LET top_hypotheses == TopHypotheses(hypotheses)
            idx == Len(evolved_hypotheses) + 1
            evolved_hypothesis ==
                IndividualRefinement(evolution_response, top_hypotheses[idx])
            at == CHOOSE i \in 1..Len(hypotheses) :
                      hypotheses[i] = top_hypotheses[idx]
            answered == clear_history(Answered(conversation_history,
                                               evolution_response))
        IN  /\ evolved_hypotheses' = Append(evolved_hypotheses, evolved_hypothesis)
            /\ hypotheses' = CallersList(hypotheses, at, evolved_hypothesis)
            /\ IF idx < Len(top_hypotheses)
               THEN IF ReadsFields(top_hypotheses[idx + 1])
                    THEN /\ UNCHANGED <<pc, result, passes, error>>
                         /\ conversation_history' =
                               Requested(answered,
                                         EvolutionPrompt(top_hypotheses[idx + 1]))
                    ELSE /\ pc' = "raised"
                         /\ error' = "KeyError"
                         /\ conversation_history' = answered
                         /\ UNCHANGED <<result, passes>>
               ELSE IF Len(top_hypotheses) >= 2
               THEN /\ pc' = "combination"
                    /\ conversation_history' =
                          Requested(answered,
                                    CombinationPrompt(top_hypotheses[1],
                                                      top_hypotheses[2]))
                    /\ UNCHANGED <<result, passes, error>>
               ELSE /\ result' = evolved_hypotheses'
                    /\ pc' = "returned"
                    /\ passes' = passes + 1
                    /\ conversation_history' = answered
                    /\ UNCHANGED error
    /\ UNCHANGED self_name
    /\ UNCHANGED outsideEvolution

\* lines 149-159: the response to the combination prompt arrives, the hybrid
\* is appended and the method returns
Combine ==
    /\ pc = "combination"
    /\ \E hybrid_response \in EvolutionResponses :
        LET top_hypotheses == TopHypotheses(hypotheses)
        IN  /\ evolved_hypotheses' = Append(evolved_hypotheses,
                  Combination(hybrid_response, top_hypotheses[1], top_hypotheses[2]))
            /\ result' = evolved_hypotheses'
            /\ conversation_history' =
                  Answered(conversation_history, hybrid_response)
    /\ pc' = "returned"
    /\ passes' = passes + 1
    /\ UNCHANGED <<hypotheses, self_name, error>>
    /\ UNCHANGED outsideEvolution

InitEvolution == InitAgent /\ self_name = "Evolution"

NextEvolution ==
    EvolutionProcess \/ EvolveAgain \/ EvolveIndividually \/ Combine

SpecEvolution == InitEvolution /\ [][NextEvolution]_vars

\* the record of the input that holds rank r
WithRank(r) == hypotheses[CHOOSE i \in 1..Len(hypotheses) : hypotheses[i].rank = r]

ReviewRankScoreFields ==
    {"review", "assessment_summary", "rank", "wins", "total_comparisons",
     "scores", "overall_score"}

\* C11: every record Evolution returns, individual refinement or combination,
\* carries none of review, assessment_summary, rank, wins, total_comparisons,
\* scores and overall_score of its parent.
C11_ClearedFields ==
    Returned =>
        \A i \in 1..Len(result) :
            DOMAIN result[i] \cap ReviewRankScoreFields = {}

\* a request of a role executor is with the language model
InFlight ==
    pc \in {"reflection", "proximity", "pairwise", "scoring", "evolution",
            "combination"}

\* C14: whenever a role executor has a request with the language model, the
\* conversation it sent holds the system prompt and that request only,
\* in every call made on the agent instance.
C14_IsolatedContext ==
    InFlight =>
        /\ Len(conversation_history) = 2
        /\ conversation_history[1] = SystemMessage(self_name)
        /\ conversation_history[2].role = "human"

\* -------------------------------------------------------- ReflectionAgent
\* `term in review.lower()` is a substring test, so a word is in the text
\* also when it is the tail of a longer word ('valid' in 'invalid'); such
\* longer words are written as two tokens: in-valid, im-plausible,
\* in-consistent, im-practical.
\* _estimate_score line 148
positive_terms ==
    << <<"strong">>, <<"valid">>, <<"plausible">>, <<"consistent">>,
       <<"novel">>, <<"innovative">> >>

\* _estimate_score line 149
negative_terms ==
    << <<"weak">>, <<"in", "valid">>, <<"im", "plausible">>,
       <<"in", "consistent">>, <<"contradicts">>, <<"flawed">> >>

\* sum(term in review.lower() for term in terms)
TermsIn(low, terms) ==
    Cardinality({k \in 1..Len(terms) : Contains(low, terms[k])})

\* ReflectionAgent._estimate_score
_estimate_score(review) ==
    LET positive_count == TermsIn(Lower(review), positive_terms)
        negative_count == TermsIn(Lower(review), negative_terms)
        total == positive_count + negative_count
    IN  IF total = 0 THEN Frac(1, 2) ELSE Frac(positive_count, total)

\* ReflectionAgent._extract_assessment_summary
_extract_assessment_summary(review) ==
    LET low == Lower(review)
    IN  [valid |-> /\ ~Contains(low, <<"in", "valid">>)
                   /\ ~Contains(low, <<"im", "plausible">>),
         strengths |-> <<>>,
         weaknesses |-> <<>>,
         ethical_concerns |-> \/ Contains(low, <<"ethical", SP, "concerns">>)
                              \/ Contains(low, <<"ethical", SP, "issues">>),
         practical_limitations |-> \/ Contains(low, <<"im", "practical">>)
                                   \/ Contains(low, <<"limitation">>),
         overall_score |-> _estimate_score(review)]

\* lines 97-102: the reviewed copy of one hypothesis
ReviewedHypothesis(hypothesis, review_response) ==
    DictSet(DictSet(hypothesis,
        "review", review_response),
        "assessment_summary", _extract_assessment_summary(review_response))

\* the prompt of lines 72-92
ReviewPrompt(hypothesis) ==
    Prompt("HYPOTHESIS TO REVIEW",
           <<hypothesis.statement, hypothesis.rationale, hypothesis.evidence,
             hypothesis.assumptions, hypothesis.validation>>)

\* responses of the language model to the review prompt
ReviewTexts ==
    { <<"Strong", SP, "and", SP, "novel", ".">>,
      <<"The", SP, "claim", SP, "is", SP, "in", "valid", SP, "with", SP,
        "a", SP, "limitation", ".">>,
      <<"No", SP, "comment", ".">> }

\* the lists handed to process: hypothesis i has either shape
ReflectionInputs == ProximityInputs

\* process(hypotheses, research_goal) up to its first request to the
\* language model, to its return (empty list) or to a KeyError of the prompt
ReflectionProcess ==
    /\ pc = "idle"
    /\ self_name = "Reflection"
    /\ \E hs \in ReflectionInputs :
        /\ hypotheses' = hs
        /\ reviewed_hypotheses' = <<>>
        /\ result' = <<>>
        /\ IF Len(hs) = 0
           THEN /\ pc' = "returned"
                /\ passes' = passes + 1
                /\ error' = "None"
                /\ UNCHANGED conversation_history
           ELSE IF ReadsFields(hs[1])
           THEN /\ pc' = "reflection"
                /\ passes' = passes
                /\ error' = "None"
                /\ conversation_history' =
                      Requested(conversation_history, ReviewPrompt(hs[1]))
           ELSE /\ pc' = "raised"
                /\ passes' = passes
                /\ error' = "KeyError"
                /\ UNCHANGED conversation_history
    /\ UNCHANGED self_name
    /\ UNCHANGED outsideReflection

\* one iteration of the loop (lines 68-107): the review arrives and the
\* reviewed copy is appended; then the next iteration starts (and may raise
\* at lines 76-80) or the method returns
Review ==
    /\ pc = "reflection"
    /\ \E review_response \in ReviewTexts :
        LET idx == Len(reviewed_hypotheses) + 1
            reviewed_hypothesis ==
                ReviewedHypothesis(hypotheses[idx], review_response)
            answered == clear_history(Answered(conversation_history,
                                               review_response))
        IN  /\ reviewed_hypotheses' =
                  Append(reviewed_hypotheses, reviewed_hypothesis)
            /\ hypotheses' = CallersList(hypotheses, idx, reviewed_hypothesis)
            /\ IF idx = Len(hypotheses)
               THEN /\ result' = reviewed_hypotheses'
                    /\ pc' = "returned"
                    /\ passes' = passes + 1
                    /\ conversation_history' = answered
                    /\ UNCHANGED error
               ELSE IF ReadsFields(hypotheses[idx + 1])
               THEN /\ UNCHANGED <<result, pc, passes, error>>
                    /\ conversation_history' =
                          Requested(answered, ReviewPrompt(hypotheses[idx + 1]))
               ELSE /\ UNCHANGED <<result, passes>>
                    /\ pc' = "raised"
                    /\ error' = "KeyError"
                    /\ conversation_history' = answered
    /\ UNCHANGED self_name
    /\ UNCHANGED outsideReflection

NextReflection == ReflectionProcess \/ Review

\* ------------------------------------------------ the four role executors
\* llm.invoke raises (base_agent.py line 81): get_response has no handler
\* and neither has any process method, so the exception ends the call; the
\* query appended at line 78 stays in the history
ServiceFails ==
    /\ InFlight
    /\ pc' = "raised"
    /\ error' = "ServiceFailure"
    /\ UNCHANGED <<passes, hypotheses, result, self_name, conversation_history>>
    /\ UNCHANGED <<rankingVars, extractionVars, proximityVars, evolutionVars,
                   reflectionVars, workflowVars, planVars>>

\* the agents that process a list of hypotheses
ExecutorNames == {"Reflection", "Proximity", "Ranking", "Evolution"}

InitExecutors == InitAgent /\ self_name \in ExecutorNames

NextExecutors ==
    \/ NextReflection
    \/ NextProximity
    \/ NextRanking
    \/ NextEvolution
    \/ ServiceFails

SpecExecutors == InitExecutors /\ [][NextExecutors]_vars

\* C12: a failure of the language model for one hypothesis of a batch does
\* not end the call of the role executor: no process call is left with the
\* failure raised to its caller.
C12_BatchSurvivesFailure ==
    ~(pc = "raised" /\ error = "ServiceFailure")

\* C13: while a role executor works on a list, the list its caller holds
\* keeps its length, its order and every key and value of every record;
\* what the executor adds or clears is on the returned copies only.
C13_ValueSemantics ==
    [][InFlight => hypotheses' = hypotheses]_vars

C13_Witness ==
    /\ Returned
    /\ self_name = "Evolution"
    /\ Len(hypotheses) = 2
    /\ Len(result) = 3
    /\ \A i \in 1..2 :
          /\ "rank" \in DOMAIN hypotheses[i]
          /\ "evolution_type" \notin DOMAIN hypotheses[i]
          /\ "rank" \notin DOMAIN result[i]
          /\ result[i].evolution_type = "individual_refinement"

\* -------------------------------------------------------------- validators
\* len(text): the number of characters of a text
RECURSIVE CharLen(_)
CharLen(text) ==
    IF Len(text) = 0 THEN 0 ELSE Len(Head(text)) + CharLen(Tail(text))

\* a token that is (part of) a word; the others are white space and
\* punctuation, where the regular expression's \b matches
IsWordTok(t) == t \notin {SP, "\n", PARA, ".", ",", ":", "?", "!", "-"}

\* re.search(r"\b(word)\b", text): the word with a boundary on either side
HasWord(text, word) ==
    \E i \in 1..(Len(text) - Len(word) + 1) :
        /\ MatchAt(text, word, i)
        /\ i = 1 \/ ~IsWordTok(text[i - 1])
        /\ i + Len(word) > Len(text) \/ ~IsWordTok(text[i + Len(word)])

\* f" {term} " in f" {text} ": the term with a blank (or the end of the
\* text) on either side
HasSpaced(text, term) ==
    \E i \in 1..(Len(text) - Len(term) + 1) :
        /\ MatchAt(text, term, i)
        /\ i = 1 \/ text[i - 1] = SP
        /\ i + Len(term) > Len(text) \/ text[i + Len(term)] = SP

\* text.strip().endswith("?")
EndsWithQuestionMark(text) ==
    LET stripped == Strip(text)
    IN  Len(stripped) > 0 /\ stripped[Len(stripped)] = "?"

\* `[name] if condition else []`, for building the list of issues
Issue(condition, name) == IF condition THEN <<name>> ELSE <<>>

\* validate_hypothesis lines 30-32. `term in text` also finds a term inside
\* a longer word, so 'increases' is written increase-s, 'causes' cause-s.
testability_terms ==
    { <<"increase">>, <<"decrease">>, <<"affect">>, <<"change">>,
      <<"cause">>, <<"lead", SP, "to">>, <<"result", SP, "in">>,
      <<"correlate">>, <<"association">>, <<"relationship">> }

\* validate_hypothesis lines 39-40
vague_terms ==
    { <<"very">>, <<"extremely">>, <<"many">>, <<"most">>, <<"few">>,
      <<"several">>, <<"a", SP, "lot">>, <<"better">>, <<"worse">>,
      <<"good">>, <<"bad">>, <<"significant">> }

\* validate_hypothesis lines 47-48: the words of the two patterns
VariableWords ==
    { <<"if">>, <<"when">>, <<"as">>, <<"while">>,
      <<"cause", "s">>, <<"affect", "s">>, <<"influence", "s">>,
      <<"impact", "s">>, <<"change", "s">>, <<"increase", "s">>,
      <<"decrease", "s">> }

\* the length limits of lines 18 and 22
MinHypothesisLength == 10
MaxHypothesisLength == 1000

\* the number of issues a valid text may have (lines 52 and 97)
AllowedIssues == 1

\* validate_hypothesis(hypothesis)
validate_hypothesis(hypothesis) ==
    LET low == Lower(hypothesis)
        issues ==
            Issue(CharLen(hypothesis) < MinHypothesisLength, "too_short")
         \o Issue(CharLen(hypothesis) > MaxHypothesisLength, "too_long")
         \o Issue(EndsWithQuestionMark(hypothesis), "question")
         \o Issue(~\E term \in testability_terms : Contains(low, term),
                  "not_testable")
         \o Issue(\E term \in vague_terms : HasSpaced(low, term), "vague")
         \o Issue(~\E word \in VariableWords : HasWord(low, word),
                  "no_variables")
    IN  [is_valid |-> Len(issues) <= AllowedIssues, issues |-> issues]

\* validate_research_goal lines 76-77
appropriate_starts ==
    { <<"to", SP>>,
      <<"the", SP, "goal", SP, "is", SP, "to", SP>>,
      <<"this", SP, "research", SP, "aims", SP, "to", SP>>,
      <<"we", SP, "aim", SP, "to", SP>>,
      <<"this", SP, "study", SP, "seeks", SP, "to", SP>>,
      <<"the", SP, "purpose", SP, "is", SP, "to", SP>> }

\* validate_research_goal lines 84-86
research_verbs ==
    { <<"investigate">>, <<"explore">>, <<"analyze">>, <<"determine">>,
      <<"identify">>, <<"examine">>, <<"understand">>, <<"evaluate">>,
      <<"assess">>, <<"develop">>, <<"discover">>, <<"explain">>,
      <<"test">>, <<"validate">>, <<"characterize">> }

\* the length limits of lines 68 and 72
MinGoalLength == 10
MaxGoalLength == 500

\* validate_research_goal(goal)
validate_research_goal(goal) ==
    LET low == Lower(goal)
        issues ==
            Issue(CharLen(goal) < MinGoalLength, "too_short")
         \o Issue(CharLen(goal) > MaxGoalLength, "too_long")
         \o Issue(~\E start \in appropriate_starts : MatchAt(low, start, 1),
                  "no_start")
         \o Issue(~\E verb \in research_verbs : HasSpaced(low, verb),
                  "no_verb")
         \o Issue(EndsWithQuestionMark(goal), "question")
    IN  [is_valid |-> Len(issues) <= AllowedIssues, issues |-> issues]

\* --------------------------------------------------------- GenerationAgent
\* section.split(":\n", 1)[-1] if ":\n" in section else section
AfterColonNewline(section) ==
    LET ats == {i \in 1..(Len(section) - 1) :
                   section[i] = ":" /\ section[i + 1] = "\n"}
    IN  IF ats = {} THEN section
        ELSE LET at == CHOOSE i \in ats : \A j \in ats : i <= j
             IN  SubSeq(section, at + 2, Len(section))

\* lines 133-139: the dict a hypothesis starts from
NewHypothesis(section) ==
    [hypothesis |-> AfterColonNewline(section),
     rationale |-> <<>>, evidence |-> <<>>, assumptions |-> <<>>,
     validation |-> <<>>]

\* lines 128-147 for one section: parsed is the pair of the list built so
\* far and current_hypothesis. The tests are on the section as it is, not
\* lower-cased.
ParseHypothesisSection(parsed, section) ==
    LET hs == parsed[1]
        current_hypothesis == parsed[2]
        has(word) == Contains(section, <<word>>)
        set(key) == <<hs, DictSet(current_hypothesis, key,
                                  AfterColonNewline(section))>>
    IN  IF has("Hypothesis") /\ "hypothesis" \notin DOMAIN current_hypothesis
        THEN << IF DOMAIN current_hypothesis # {}
                THEN Append(hs, current_hypothesis) ELSE hs,
                NewHypothesis(section) >>
        ELSE IF has("Rationale") THEN set("rationale")
        ELSE IF has("Evidence") THEN set("evidence")
        ELSE IF has("Assumptions") THEN set("assumptions")
        ELSE IF has("Validation") \/ has("Testing") THEN set("validation")
        ELSE parsed

RECURSIVE ParseHypothesisSections(_, _)
ParseHypothesisSections(parsed, sections) ==
    IF Len(sections) = 0 THEN parsed
    ELSE ParseHypothesisSections(
             ParseHypothesisSection(parsed, Head(sections)), Tail(sections))

\* GenerationAgent._parse_hypotheses(response)
_parse_hypotheses(generation_response) ==
    LET parsed == ParseHypothesisSections(<< <<>>, <<>> >>,
                                          Split(generation_response, PARA))
    IN  IF DOMAIN parsed[2] # {} THEN Append(parsed[1], parsed[2])
        ELSE parsed[1]

\* ------------------------------------------------------------ AICoScientist
\* the research goals handed to the orchestrator
ResearchGoals ==
    { <<"To", SP, "investigate", SP, "sleep", ".">>,
      <<"Explore", SP, "memory", SP, "and", SP, "sleep", ".">>,
      <<"Sleep", "?">> }

\* the prompt of generation_agent.py lines 85-98
GenerationPrompt(goal) == Prompt("RESEARCH GOAL", <<goal>>)

HypothesisSection ==
    <<"Hypothesis", SP, "1", ":", "\n", "Caffeine", SP, "increase", "s", SP,
      "alertness", SP, "when", SP, "dosed", ".">>

\* responses of the language model to the generation prompt
GenerationTexts ==
    { HypothesisSection \o <<PARA, "Rationale", ":", "\n", "It", SP,
                             "blocks", SP, "adenosine", ".">>,
      HypothesisSection \o <<PARA, "Hypothesis", SP, "2", ":", "\n",
                             "Sleep", SP, "affect", "s", SP, "memory", ".">>,
      <<"Hypothesis", ":", "\n", "It", SP, "is", SP, "good", SP, "when", SP,
        "change", SP, "occurs", ".">>,
      <<"Hypothesis", ":", "\n", "Why", "?">>,
      <<"Rationale", ":", "\n", "Unknown", ".">>,
      <<"No", SP, "idea", ".">> }

\* the iteration counts handed to refine_hypotheses and run_full_workflow
Iterations == 0..MaxIterations

\* no top-level call is waiting for the language model
NoRequestPending == pc # "generation"

\* the stage method is called now: by run_full_workflow when the run stands
\* at this step, or by the user when no run is under way
Called(step) == NoRequestPending /\ run.step \in {"none", "failed", step}

\* the stage returned: run_full_workflow goes on to the next step
Advance(step, next) ==
    /\ run' = IF run.step = step THEN [run EXCEPT !.step = next] ELSE run
    /\ pc' = IF run.step = step THEN "workflow" ELSE "returned"
    /\ error' = "None"

\* lines 380-382: an exception in a stage ends run_full_workflow as well
Raise(step, exception) ==
    /\ run' = IF run.step = step THEN [run EXCEPT !.step = "failed"] ELSE run
    /\ pc' = "raised"
    /\ error' = exception

\* the stage lines (129, 171, 204, 264) the running top-level call logged
Logged(step, stage) ==
    IF run.step = step THEN Append(log, stage) ELSE <<stage>>

\* a stage whose guard raised logged no stage line
NotLogged(step) == IF run.step = step THEN log ELSE <<>>

\* what the orchestrator's methods leave alone: the agents' locals and the
\* supervisor's plans
outsideWorkflow == <<passes, hypotheses, self_name, rankingVars,
                     extractionVars, proximityVars, evolutionVars,
                     reflectionVars, planVars>>

\* `if not self.hypotheses` (line 168)
NothingToRankSkipped(hs) == FALSE

NothingToRank(hs) == Len(hs) = 0

\* set_research_goal(goal)
set_research_goal ==
    /\ NoRequestPending
    /\ run.step \in {"none", "failed"}
    /\ \E goal \in ResearchGoals :
        IF validate_research_goal(goal).is_valid
        THEN /\ research_goal' = goal
             /\ pc' = "returned"
             /\ error' = "None"
        ELSE /\ UNCHANGED research_goal
             /\ pc' = "raised"
             /\ error' = "ValidationError"
    /\ log' = <<>>
    /\ UNCHANGED <<self_hypotheses, self_ranked_hypotheses, final_report, run,
                   result, conversation_history>>
    /\ UNCHANGED outsideWorkflow

\* run_full_workflow(research_goal, iterations) up to the call of
\* generate_hypotheses: it sets the goal (line 353)
run_full_workflow ==
    /\ NoRequestPending
    /\ run.step \in {"none", "failed"}
    /\ \E goal \in ResearchGoals, iterations \in Iterations :
        IF validate_research_goal(goal).is_valid
        THEN /\ research_goal' = goal
             /\ run' = [step |-> "generate", iterations |-> iterations]
             /\ pc' = "workflow"
             /\ error' = "None"
        ELSE /\ UNCHANGED research_goal
             /\ run' = [step |-> "failed", iterations |-> iterations]
             /\ pc' = "raised"
             /\ error' = "ValidationError"
    /\ log' = <<>>
    /\ UNCHANGED <<self_hypotheses, self_ranked_hypotheses, final_report,
                   result, conversation_history>>
    /\ UNCHANGED outsideWorkflow

\* generate_hypotheses(count) up to the request GenerationAgent.process
\* sends (generation_agent.py line 100), or to the ValueError of line 127
generate_hypotheses ==
    /\ Called("generate")
    /\ IF research_goal = None
       THEN /\ Raise("generate", "ValueError: research goal must be set")
            /\ log' = NotLogged("generate")
            /\ UNCHANGED conversation_history
       ELSE /\ Len(conversation_history) < 1 + 2 * MaxGenerations
            /\ pc' = "generation"
            /\ error' = "None"
            /\ log' = Logged("generate", "Generation")
            /\ conversation_history' =
                  Requested(conversation_history,
                            GenerationPrompt(research_goal))
            /\ UNCHANGED run
    /\ UNCHANGED <<research_goal, self_hypotheses, self_ranked_hypotheses,
                   final_report, result>>
    /\ UNCHANGED outsideWorkflow

\* lines 143-150: the drafts with the validation result written on each
Validated(drafts) ==
    [i \in 1..Len(drafts) |->
        DictSet(drafts[i], "validation",
                validate_hypothesis(drafts[i].hypothesis))]

\* every draft kept, whatever its validation result
EveryOne(validated) == validated

\* valid_hypotheses of lines 142-150
RECURSIVE ValidOnes(_)
ValidOnes(validated) ==
    IF Len(validated) = 0 THEN <<>>
    ELSE IF Head(validated).validation.is_valid
         THEN <<Head(validated)>> \o ValidOnes(Tail(validated))
         ELSE ValidOnes(Tail(validated))

\* the rest of generate_hypotheses: the response arrives (the generation
\* agent does not clear its history), is parsed, and the drafts are
\* validated; h["hypothesis"] raises KeyError for a draft without that key
GenerationResponds ==
    /\ pc = "generation"
    /\ \E generation_response \in GenerationTexts :
        LET drafts == _parse_hypotheses(generation_response)
        IN  /\ conversation_history' =
                  Answered(conversation_history, generation_response)
            /\ IF \E i \in 1..Len(drafts) :
                      "hypothesis" \notin DOMAIN drafts[i]
               THEN /\ Raise("generate", "KeyError: hypothesis")
                    /\ UNCHANGED <<self_hypotheses, result>>
               ELSE /\ self_hypotheses' = ValidOnes(Validated(drafts))
                    /\ result' = self_hypotheses'
                    /\ Advance("generate", "rank")
    /\ UNCHANGED <<research_goal, self_ranked_hypotheses, final_report, log>>
    /\ UNCHANGED outsideWorkflow

\* RankingAgent.process on the orchestrator's list. _parse_hypotheses starts
\* one hypothesis per response, so the list has one record, the pairwise
\* strategy has no pair to compare and sends no request.
RankedWithoutComparison(hs) ==
    PairwiseRanked(hs, [i \in 1..Len(hs) |-> 0], <<>>)

\* rank_hypotheses()
rank_hypotheses ==
    /\ Called("rank")
    /\ IF NothingToRank(self_hypotheses)
       THEN /\ Raise("rank", "ValueError: no hypotheses to rank")
            /\ log' = NotLogged("rank")
            /\ UNCHANGED <<self_ranked_hypotheses, result>>
       ELSE /\ Len(self_hypotheses) <= 1
            /\ log' = Logged("rank", "Ranking")
            /\ self_ranked_hypotheses' =
                  RankedWithoutComparison(self_hypotheses)
            /\ result' = self_ranked_hypotheses'
            /\ Advance("rank", "refine")
    /\ UNCHANGED <<research_goal, self_hypotheses, final_report,
                   conversation_history>>
    /\ UNCHANGED outsideWorkflow

\* refine_hypotheses(iterations): with iterations >= 1 the first statement
\* of the loop body (line 218) looks up review_hypothesis, which
\* ReflectionAgent does not have; with no iteration the top three are
\* written back as they are
refine_hypotheses ==
    /\ Called("refine")
    /\ \E iterations \in Iterations :
        /\ run.step = "refine" => iterations = run.iterations
        /\ IF Len(self_ranked_hypotheses) = 0
           THEN /\ Raise("refine", "ValueError: no ranked hypotheses")
                /\ log' = NotLogged("refine")
                /\ UNCHANGED result
           ELSE IF iterations >= 1
           THEN /\ Raise("refine", "AttributeError: review_hypothesis")
                /\ log' = Logged("refine", "Refinement")
                /\ UNCHANGED result
           ELSE /\ log' = Logged("refine", "Refinement")
                /\ result' = SubSeq(self_ranked_hypotheses, 1,
                                    Min(TopSlots, Len(self_ranked_hypotheses)))
                /\ Advance("refine", "report")
    /\ UNCHANGED <<research_goal, self_hypotheses, self_ranked_hypotheses,
                   final_report, conversation_history>>
    /\ UNCHANGED outsideWorkflow

\* generate_research_report(): line 270 looks up generate_report, which
\* MetaReviewAgent does not have, so final_report is never assigned and
\* run_full_workflow never gets to lines 367-378
generate_research_report ==
    /\ Called("report")
    /\ IF Len(self_ranked_hypotheses) = 0
       THEN /\ Raise("report", "ValueError: no hypotheses processed")
            /\ log' = NotLogged("report")
       ELSE /\ Raise("report", "AttributeError: generate_report")
            /\ log' = Logged("report", "Synthesis")
    /\ UNCHANGED <<research_goal, self_hypotheses, self_ranked_hypotheses,
                   final_report, result, conversation_history>>
    /\ UNCHANGED outsideWorkflow

\* save_results(output_dir): final_report is None in every state
save_results ==
    /\ NoRequestPending
    /\ run.step \in {"none", "failed"}
    /\ final_report = None
    /\ pc' = "raised"
    /\ error' = "ValueError: no final report"
    /\ log' = <<>>
    /\ UNCHANGED <<research_goal, self_hypotheses, self_ranked_hypotheses,
                   final_report, run, result, conversation_history>>
    /\ UNCHANGED outsideWorkflow

InitWorkflow == InitAgent /\ self_name = "Generation"

NextWorkflow ==
    \/ set_research_goal
    \/ run_full_workflow
    \/ generate_hypotheses
    \/ GenerationResponds
    \/ rank_hypotheses
    \/ refine_hypotheses
    \/ generate_research_report
    \/ save_results

SpecWorkflow == InitWorkflow /\ [][NextWorkflow]_vars

\* the scheduler of a single-threaded program: a call that can go on does
SpecWorkflowFair == SpecWorkflow /\ WF_vars(NextWorkflow)

\* the stage order of a full run
FullRunStages ==
    <<"Generation", "Reflection", "Proximity", "Ranking", "Refinement",
      "Ranking", "Synthesis">>

RunUnderWay == run.step \in {"generate", "rank", "refine", "report"}

\* C15: the stages a full run has entered so far are the first stages of
\* Generation, Reflection, Proximity filter, Ranking, Refinement, Ranking,
\* Synthesis, in that order.
C15_StageOrder ==
    RunUnderWay =>
        /\ Len(log) <= Len(FullRunStages)
        /\ log = SubSeq(FullRunStages, 1, Len(log))

\* the stage refused the call: the error is raised and the orchestrator's
\* four fields and the conversation with the language model are as before
Refused(exception) ==
    /\ pc' = "raised"
    /\ error' = exception
    /\ UNCHANGED <<research_goal, self_hypotheses, self_ranked_hypotheses,
                   final_report, conversation_history>>

\* C16: a stage called without its precondition raises, sends no request to
\* the language model and leaves research_goal, hypotheses,
\* ranked_hypotheses and final_report as they were; a run whose generation
\* gave no valid hypothesis fails at ranking, so no run stands at refinement
\* or synthesis with an empty hypothesis list.
C16_GuardsFirst ==
    [][/\ (generate_hypotheses /\ research_goal = None)
            => Refused("ValueError: research goal must be set")
       /\ (rank_hypotheses /\ Len(self_hypotheses) = 0)
            => Refused("ValueError: no hypotheses to rank")
       /\ (refine_hypotheses /\ Len(self_ranked_hypotheses) = 0)
            => Refused("ValueError: no ranked hypotheses")
       /\ (generate_research_report /\ Len(self_ranked_hypotheses) = 0)
            => Refused("ValueError: no hypotheses processed")
       /\ (save_results /\ final_report = None)
            => Refused("ValueError: no final report")
       /\ (rank_hypotheses /\ run.step = "rank" /\ Len(self_hypotheses) = 0)
            => run'.step = "failed"
       /\ run'.step \in {"refine", "report"} => Len(self_hypotheses') > 0
      ]_vars

C16_Witness ==
    /\ run.step = "failed"
    /\ log = <<"Generation">>
    /\ pc = "raised"
    /\ error = "ValueError: no hypotheses to rank"
    /\ Len(self_hypotheses) = 0
    /\ Len(conversation_history) = 3

\* C17: a full run that has a valid goal and at least one valid hypothesis
\* goes on to its end: run_full_workflow returns and final_report is set.
C17_RunCompletes ==
    (run.step = "rank" /\ Len(self_hypotheses) > 0)
        ~> (run.step = "done" /\ final_report # None)

\* C18: a refinement that has started (its guard passed) goes through its
\* iterations and returns min(3, n) refined slots, the ranked list keeping
\* its length.
C18_RefinementRuns ==
    (log # <<>> /\ log[Len(log)] = "Refinement")
        => /\ pc \in {"returned", "workflow"}
           /\ Len(result) = Min(TopSlots, Len(self_ranked_hypotheses))

\* the hypothesis texts of the records the orchestrator holds
Held ==
    {self_hypotheses[i].hypothesis : i \in 1..Len(self_hypotheses)}
        \cup {self_ranked_hypotheses[i].hypothesis :
                 i \in 1..Len(self_ranked_hypotheses)}

\* the hypothesis texts of the drafts parsed from the last response
Drafted ==
    LET drafts == _parse_hypotheses(
                      conversation_history[Len(conversation_history)].content)
    IN  {drafts[i].hypothesis :
            i \in {j \in 1..Len(drafts) : "hypothesis" \in DOMAIN drafts[j]}}

\* C19: no step destroys a hypothesis: what the orchestrator holds it still
\* holds after the step, and every draft a generation produced is held.
C19_NeverDestroyed ==
    [][/\ Held \subseteq Held'
       /\ (pc = "generation" /\ pc' # "generation") => Drafted' \subseteq Held'
      ]_vars

\* ---------------------------------------------------------- SupervisorAgent
\* the dict {}
EmptyDict == [key \in {} |-> key]

\* the defaults of lines 186-188 and the threshold of line 194
DefaultHypothesisCount == 3
DefaultIterationLimit == 2
PlanProximityThreshold == 6

\* the length of the text kept as reasoning / update_notes (text[:500])
NoteLimit == 500

\* text[:500]; a text is cut between tokens
RECURSIVE FirstChars(_, _)
FirstChars(text, limit) ==
    IF Len(text) = 0 \/ Len(Head(text)) > limit THEN <<>>
    ELSE <<Head(text)>> \o FirstChars(Tail(text), limit - Len(Head(text)))

\* self._get_timestamp(): the clock is not modelled
_get_timestamp == "now"

\* lines 185-188
ConfigOf(session_config) ==
    IF DOMAIN session_config = {} THEN EmptyDict ELSE session_config

\* default_sequence of lines 191-199
default_sequence(config) ==
    << [agent |-> "Generation", task |-> "generate_initial_hypotheses",
        params |-> [count |-> DictGet(config, "hypothesis_count",
                                      DefaultHypothesisCount)]],
       [agent |-> "Reflection", task |-> "review_hypotheses",
        params |-> EmptyDict],
       [agent |-> "Proximity", task |-> "evaluate_relevance",
        params |-> [threshold |-> PlanProximityThreshold]],
       [agent |-> "Ranking", task |-> "rank_hypotheses",
        params |-> EmptyDict],
       [agent |-> "Evolution", task |-> "improve_hypotheses",
        params |-> [iterations |-> DictGet(config, "iteration_limit",
                                           DefaultIterationLimit)]],
       [agent |-> "Ranking", task |-> "rank_final_hypotheses",
        params |-> EmptyDict],
       [agent |-> "MetaReview", task |-> "create_research_report",
        params |-> [format |-> DictGet(config, "output_format",
                                       "scientific_report")]] >>

\* [step for step in sequence if step['agent'] != 'Proximity']
RECURSIVE WithoutProximity(_)
WithoutProximity(sequence) ==
    IF Len(sequence) = 0 THEN <<>>
    ELSE IF Head(sequence).agent = "Proximity"
         THEN WithoutProximity(Tail(sequence))
         ELSE <<Head(sequence)>> \o WithoutProximity(Tail(sequence))

\* max(a, b)
Max(a, b) == IF a >= b THEN a ELSE b

\* lines 339-345 for one step
AdjustIterations(step, low) ==
    IF step.agent # "Evolution" THEN step
    ELSE IF \/ Contains(low, <<"additional", SP, "iterations">>)
            \/ Contains(low, <<"more", SP, "iterations">>)
    THEN [step EXCEPT !.params =
             DictSet(@, "iterations", step.params.iterations + 1)]
    ELSE IF \/ Contains(low, <<"fewer", SP, "iterations">>)
            \/ Contains(low, <<"reduce", SP, "iterations">>)
    THEN [step EXCEPT !.params =
             DictSet(@, "iterations", Max(1, step.params.iterations - 1))]
    ELSE step

\* the loop of lines 339-345
RECURSIVE AdjustAll(_, _)
AdjustAll(sequence, low) ==
    IF Len(sequence) = 0 THEN <<>>
    ELSE <<AdjustIterations(Head(sequence), low)>>
             \o AdjustAll(Tail(sequence), low)

\* _extract_research_plan(plan_text, default_sequence)
_extract_research_plan(plan_text, default) ==
    LET low == Lower(plan_text)
        sequence ==
            IF \/ Contains(low, <<"skip", SP, "proximity", SP, "evaluation">>)
               \/ Contains(low, <<"omit", SP, "proximity">>)
            THEN WithoutProximity(default) ELSE default
    IN  [steps |-> AdjustAll(sequence, low),
         reasoning |-> FirstChars(plan_text, NoteLimit),
         status |-> "planned"]

\* lines 228-235: the plan _create_research_plan returns
CreatedPlan(plan_response, research_query, session_config) ==
    LET config == ConfigOf(session_config)
        plan == _extract_research_plan(plan_response, default_sequence(config))
    IN  DictSet(DictSet(DictSet(plan,
            "research_query", research_query),
            "created_at", _get_timestamp),
            "configuration", config)

\* line 375: 'add step' in update_text.lower() or 'additional step' in ...
AddsStepOnAdditional(update_text) ==
    Contains(Lower(update_text), <<"additional">>)

AddsStep(update_text) ==
    \/ Contains(Lower(update_text), <<"add", SP, "step">>)
    \/ Contains(Lower(update_text), <<"additional", SP, "step">>)

\* line 378
RemovesStep(update_text) ==
    \/ Contains(Lower(update_text), <<"remove", SP, "step">>)
    \/ Contains(Lower(update_text), <<"skip", SP, "step">>)

\* the two checks with the last step popped whatever has been executed
UpdatedStepsUnguarded(update_text, plan) ==
    LET added == IF AddsStep(update_text)
                 THEN Append(plan.steps,
                             [agent |-> "MetaReview",
                              task |-> "create_executive_summary",
                              params |-> EmptyDict])
                 ELSE plan.steps
    IN  IF RemovesStep(update_text)
        THEN SubSeq(added, 1, Len(added) - 1)
        ELSE added

\* lines 375-382: the list updated_plan['steps'] after the two checks. The
\* list is the one current_plan['steps'] names: line 371 copies the dict,
\* not the list.
UpdatedSteps(update_text, plan) ==
    LET added == IF AddsStep(update_text)
                 THEN Append(plan.steps,
                             [agent |-> "MetaReview",
                              task |-> "create_executive_summary",
                              params |-> EmptyDict])
                 ELSE plan.steps
        executed_count == Len(DictGet(plan, "executed_steps", <<>>))
    IN  IF RemovesStep(update_text) /\ executed_count < Len(added)
        THEN SubSeq(added, 1, Len(added) - 1)
        ELSE added

\* _extract_updated_plan(update_text, current_plan)
_extract_updated_plan(update_text, plan) ==
    DictSet(DictSet(plan,
        "update_notes", FirstChars(update_text, NoteLimit)),
        "steps", UpdatedSteps(update_text, plan))

\* lines 132-133
UpdatedPlan(update_response, plan, with_feedback) ==
    DictSet(DictSet(_extract_updated_plan(update_response, plan),
        "last_updated", _get_timestamp),
        "update_reason", IF with_feedback
                         THEN "execution_status_and_feedback"
                         ELSE "execution_status")

\* the plan dict the caller handed in, after the call: its steps entry
\* names the list the method changed, its other entries are its own
CallersPlan(update_text, plan) ==
    DictSet(plan, "steps", UpdatedSteps(update_text, plan))

\* the research queries handed to the supervisor
ResearchQueries == { <<"To", SP, "investigate", SP, "sleep", ".">> }

\* session_config: None, or a dict with some of the three keys
SessionConfigs ==
    { None,
      [iteration_limit |-> 1],
      [iteration_limit |-> 3, hypothesis_count |-> 5] }

\* responses of the language model to the planning prompt
PlanTexts ==
    { <<"Use", SP, "the", SP, "default", SP, "plan", ".">>,
      <<"Skip", SP, "proximity", SP, "evaluation", ".">>,
      <<"Run", SP, "additional", SP, "iterations", ".">>,
      <<"Use", SP, "fewer", SP, "iterations", ".">>,
      <<"Omit", SP, "proximity", SP, "and", SP, "run", SP, "more", SP,
        "iterations", ".">> }

\* responses of the language model to the update prompt
UpdateTexts ==
    { <<"Continue", SP, "with", SP, "the", SP, "plan", ".">>,
      <<"Add", SP, "step", SP, "for", SP, "a", SP, "summary", ".">>,
      <<"Remove", SP, "step", ".">>,
      <<"Add", SP, "step", "s", SP, "and", SP, "skip", SP, "step", ".">>,
      <<"Run", SP, "additional", SP, "iterations", ".">> }

\* execution_status dicts
ExecutionStatuses ==
    { EmptyDict,
      [completed_steps |-> <<"generate_initial_hypotheses">>,
       current_step |-> "review_hypotheses"] }

\* user_feedback: None or a text
UserFeedbacks == { None, <<"Looks", SP, "fine", ".">> }

\* the plan the caller hands to update_plan: the plan the supervisor
\* returned last, as it is or with the executed steps noted on it, all of
\* its steps but the last
CallerPlans(plan) ==
    { plan,
      DictSet(plan, "executed_steps",
              SubSeq(plan.steps, 1, Len(plan.steps) - 1)) }

\* the prompt of lines 201-224
PlanPrompt(research_query) == Prompt("RESEARCH QUERY", <<research_query>>)

\* the prompt of lines 98-123
UpdatePrompt(execution_status, user_feedback) ==
    Prompt("CURRENT RESEARCH PLAN",
           <<Str(Len(DictGet(execution_status, "completed_steps", <<>>)))>>
             \o (IF user_feedback # None
                 THEN << <<"USER FEEDBACK">>, user_feedback >> ELSE <<>>))

\* what the supervisor's methods leave alone
outsidePlan == <<passes, hypotheses, result, self_name, error, rankingVars,
                 extractionVars, proximityVars, evolutionVars, reflectionVars,
                 workflowVars>>

\* _create_research_plan(research_query, query_analysis, session_config) up
\* to its request to the language model (line 226); the arguments are kept
\* in research_plan until the response arrives
_create_research_plan ==
    /\ pc \in {"idle", "returned"}
    /\ self_name = "Supervisor"
    /\ Len(conversation_history) < 1 + 2 * MaxSupervisorCalls
    /\ \E research_query \in ResearchQueries,
          session_config \in SessionConfigs :
        /\ research_plan' = [research_query |-> research_query,
                             configuration |-> session_config]
        /\ conversation_history' =
              Requested(conversation_history, PlanPrompt(research_query))
    /\ pc' = "planning"
    /\ UNCHANGED <<current_plan, task_history>>
    /\ UNCHANGED outsidePlan

\* the rest of _create_research_plan (lines 226-237)
PlanResponds ==
    /\ pc = "planning"
    /\ \E plan_response \in PlanTexts :
        /\ conversation_history' =
              Answered(conversation_history, plan_response)
        /\ research_plan' = CreatedPlan(plan_response,
                                        research_plan.research_query,
                                        research_plan.configuration)
    /\ pc' = "returned"
    /\ UNCHANGED <<current_plan, task_history>>
    /\ UNCHANGED outsidePlan

\* update_plan(current_plan, execution_status, user_feedback) up to its
\* request to the language model (line 125): the completed steps are
\* recorded first (line 95)
update_plan ==
    /\ pc = "returned"
    /\ self_name = "Supervisor"
    /\ Len(conversation_history) < 1 + 2 * MaxSupervisorCalls
    /\ \E plan \in CallerPlans(research_plan),
          execution_status \in ExecutionStatuses,
          user_feedback \in UserFeedbacks :
        /\ current_plan' = plan
        /\ task_history' = task_history
              \o DictGet(execution_status, "completed_steps", <<>>)
        /\ conversation_history' =
              Requested(conversation_history,
                        UpdatePrompt(execution_status, user_feedback))
    /\ pc' = "updating"
    /\ UNCHANGED research_plan
    /\ UNCHANGED outsidePlan

\* `if user_feedback` of the running update_plan call: the prompt it sent
\* has the feedback section
FeedbackGiven ==
    Contains(conversation_history[Len(conversation_history)].content,
             <<"USER FEEDBACK">>)

\* the rest of update_plan (lines 125-135)
UpdateResponds ==
    /\ pc = "updating"
    /\ \E update_response \in UpdateTexts :
        /\ conversation_history' =
              Answered(conversation_history, update_response)
        /\ research_plan' =
              UpdatedPlan(update_response, current_plan, FeedbackGiven)
        /\ current_plan' = CallersPlan(update_response, current_plan)
    /\ pc' = "returned"
    /\ UNCHANGED task_history
    /\ UNCHANGED outsidePlan

InitPlan == InitAgent /\ self_name = "Supervisor"

NextPlan ==
    \/ _create_research_plan
    \/ PlanResponds
    \/ update_plan
    \/ UpdateResponds

SpecPlan == InitPlan /\ [][NextPlan]_vars

\* the response that arrived in this step
Arrived == conversation_history'[Len(conversation_history')].content

\* the phrases update_plan acts on
HasUpdatePhrase(text) ==
    \E phrase \in { <<"add", SP, "step">>, <<"additional", SP, "step">>,
                    <<"remove", SP, "step">>, <<"skip", SP, "step">> } :
        Contains(Lower(text), phrase)

\* the phrases plan creation acts on
HasPlanPhrase(text) ==
    \E phrase \in { <<"skip", SP, "proximity", SP, "evaluation">>,
                    <<"omit", SP, "proximity">>,
                    <<"additional", SP, "iterations">>,
                    <<"more", SP, "iterations">>,
                    <<"fewer", SP, "iterations">>,
                    <<"reduce", SP, "iterations">> } :
        Contains(Lower(text), phrase)

\* the agents of the default plan, in order
DefaultAgents ==
    <<"Generation", "Reflection", "Proximity", "Ranking", "Evolution",
      "Ranking", "MetaReview">>

\* C20: a response with none of the recognized phrases changes nothing:
\* update_plan returns the step sequence of the plan it was given, and plan
\* creation returns the seven default steps, the Evolution step with the
\* configured number of iterations.
C20_DefaultsToNoOp ==
    [][/\ (pc = "updating" /\ pc' = "returned" /\ ~HasUpdatePhrase(Arrived))
            => research_plan'.steps = current_plan.steps
       /\ (pc = "planning" /\ pc' = "returned" /\ ~HasPlanPhrase(Arrived))
            => /\ Len(research_plan'.steps) = Len(DefaultAgents)
               /\ \A i \in 1..Len(DefaultAgents) :
                     research_plan'.steps[i].agent = DefaultAgents[i]
               /\ research_plan'.steps = default_sequence(
                                           research_plan'.configuration)
               /\ research_plan'.steps[5].params.iterations =
                     DictGet(research_plan.configuration, "iteration_limit",
                             DefaultIterationLimit)
      ]_vars

C20_Witness ==
    /\ pc = "returned"
    /\ self_name = "Supervisor"
    /\ "update_notes" \in DOMAIN research_plan
    /\ research_plan.update_notes =
          <<"Run", SP, "additional", SP, "iterations", ".">>
    /\ research_plan.steps = current_plan.steps
    /\ Len(research_plan.steps) = 7
    /\ research_plan.steps[5].params.iterations = 3

\* ------------------------------------------------------- winner extraction
\* one sentence of a comparison text
WinnerSentence(kind) ==
    LET about(k, words) == <<"Hypothesis", SP, k, SP>> \o words \o <<".">>
    IN  CASE kind = 0 -> <<>>
          [] kind = 1 -> about("1", <<"is", SP, "superior">>)
          [] kind = 2 -> about("2", <<"is", SP, "superior">>)
          [] kind = 3 -> about("1", <<"is", SP, "more", SP, "novel">>)
          [] kind = 4 -> about("2", <<"has", SP, "higher", SP, "impact">>)
          [] kind = 5 -> about("1", <<"wins">>)
          [] kind = 6 -> about("2", <<"wins">>)
          [] kind = 7 -> <<"Both", SP, "are", SP, "plausible", ".">>

WinnerSentenceKinds == 0..7

\* the sentences f[i..n], a blank between two of them
RECURSIVE SentencesFrom(_, _, _)
SentencesFrom(f, i, n) ==
    IF i > n THEN <<>>
    ELSE LET rest == SentencesFrom(f, i + 1, n)
             this == WinnerSentence(f[i])
         IN  IF Len(this) = 0 THEN rest
             ELSE IF Len(rest) = 0 THEN this
             ELSE this \o <<SP>> \o rest

\* text[:-1] when the text ends with a period and closed is false
FinalPeriod(text, closed) ==
    IF closed \/ Len(text) = 0 THEN text ELSE SubSeq(text, 1, Len(text) - 1)

\* the comparison texts: up to MaxSentences sentences, the last one with or
\* without its period
WinnerTexts ==
    { FinalPeriod(SentencesFrom(f, 1, MaxSentences), closed) :
        f \in [1..MaxSentences -> WinnerSentenceKinds], closed \in BOOLEAN }

InitWinner ==
    /\ pc = "idle"
    /\ passes = 0
    /\ hypotheses = <<>>
    /\ wins = <<>>
    /\ comparisons = <<>>
    /\ scored_hypotheses = <<>>
    /\ result = <<>>
    /\ response \in WinnerTexts
    /\ extracted = <<>>
    /\ evaluated_hypotheses = <<>>
    /\ relevant_hypotheses = <<>>
    /\ evolved_hypotheses = <<>>
    /\ reviewed_hypotheses = <<>>
    /\ self_name = "Ranking"
    /\ conversation_history = <<SystemMessage(self_name)>>
    /\ error = "None"
    /\ InitWorkflowVars
    /\ InitPlanVars

\* line 134: winner = self._determine_winner(comparison_result, 1, 2)
DetermineWinner ==
    /\ pc = "idle"
    /\ extracted' = _determine_winner(response, 1, 2)
    /\ pc' = "returned"
    /\ UNCHANGED <<passes, hypotheses, result, response>>
    /\ UNCHANGED <<self_name, conversation_history, error>>
    /\ UNCHANGED outsideExtraction

NextWinner == DetermineWinner

SpecWinner == InitWinner /\ [][NextWinner]_vars

\* "hypothesis k"
Label(k) == <<"hypothesis", SP, k>>

\* the text has an explicit superiority phrase for hypothesis k
SaysSuperior(text, k) ==
    \/ Contains(Lower(text), Label(k) \o <<SP, "is", SP, "superior">>)
    \/ Contains(Lower(text), Label(k) \o <<SP, "is", SP, "stronger">>)

\* the number of comparative phrases for hypothesis k
Comparatives(text, k) ==
    Count(Lower(text), Label(k) \o <<SP, "is", SP, "more">>)
    + Count(Lower(text), Label(k) \o <<SP, "has", SP, "higher">>)

\* the sentences of a text: the pieces its periods end, and what follows
\* the last period if anything does
SentencesOf(text) ==
    LET pieces == Split(text, ".")
    IN  IF Len(pieces[Len(pieces)]) = 0
        THEN SubSeq(pieces, 1, Len(pieces) - 1) ELSE pieces

\* hypothesis k is named in one of the final three sentences
InFinalThree(text, k) ==
    LET final == LastK(SentencesOf(text), 3)
    IN  \E i \in 1..Len(final) : Contains(Lower(final[i]), Label(k))

\* C21: the winner is 1, 2 or 0 (tie), found by the first rule that applies:
\* an explicit superiority phrase; else the strictly higher count of
\* comparative phrases; else the only hypothesis named in the final three
\* sentences; else a tie.
C21_RulePriority ==
    Returned =>
        /\ extracted \in {0, 1, 2}
        /\ IF SaysSuperior(response, "1") \/ SaysSuperior(response, "2")
           THEN /\ extracted # 0
                /\ extracted = 1 => SaysSuperior(response, "1")
                /\ extracted = 2 => SaysSuperior(response, "2")
           ELSE IF Comparatives(response, "1") # Comparatives(response, "2")
           THEN extracted = IF Comparatives(response, "1")
                               > Comparatives(response, "2") THEN 1 ELSE 2
           ELSE IF InFinalThree(response, "1") /\ ~InFinalThree(response, "2")
           THEN extracted = 1
           ELSE IF InFinalThree(response, "2") /\ ~InFinalThree(response, "1")
           THEN extracted = 2
           ELSE extracted = 0

\* the text with the labels 'hypothesis 1' and 'hypothesis 2' exchanged
RECURSIVE SwapLabels(_, _)
SwapLabels(text, i) ==
    IF i > Len(text) THEN <<>>
    ELSE IF /\ i >= 3
            /\ LowerTok(text[i - 2]) = "hypothesis"
            /\ text[i - 1] = SP
            /\ text[i] \in {"1", "2"}
         THEN <<IF text[i] = "1" THEN "2" ELSE "1">> \o SwapLabels(text, i + 1)
         ELSE <<text[i]>> \o SwapLabels(text, i + 1)

\* 1 becomes 2, 2 becomes 1, a tie stays a tie
SwapWinner(w) == IF w = 0 THEN 0 ELSE 3 - w

\* C29: exchanging the two labels throughout a comparison text exchanges
\* the winner.
C29_NoPositionBias ==
    Returned =>
        _determine_winner(SwapLabels(response, 1), 1, 2) = SwapWinner(extracted)

\* ------------------------------------------- proximity score, two statements
\* the scores a response states
StatedValues == {1, 3, 8, 10}

\* responses to a proximity prompt that state one score or two
TwoScoreTexts ==
    { StatedScore(t, i) \o <<".">> : t \in 1..4, i \in StatedValues }
    \cup
    { StatedScore(t, i) \o <<".", SP>> \o StatedScore(u, j) \o <<".">> :
        t \in 1..4, u \in 1..4, i \in StatedValues, j \in StatedValues }

InitTwoScores ==
    /\ pc = "idle"
    /\ passes = 0
    /\ hypotheses = <<>>
    /\ wins = <<>>
    /\ comparisons = <<>>
    /\ scored_hypotheses = <<>>
    /\ result = <<>>
    /\ response \in TwoScoreTexts
    /\ extracted = <<>>
    /\ evaluated_hypotheses = <<>>
    /\ relevant_hypotheses = <<>>
    /\ evolved_hypotheses = <<>>
    /\ reviewed_hypotheses = <<>>
    /\ self_name = "Proximity"
    /\ conversation_history = <<SystemMessage(self_name)>>
    /\ error = "None"
    /\ InitWorkflowVars
    /\ InitPlanVars

SpecTwoScores == InitTwoScores /\ [][NextProximityInfo]_vars

\* the template/number pairs whose text occurs in the response
ScoreMatches(text) ==
    {m \in (1..4) \X (1..10) :
        Contains(Lower(text), Lower(ProximityPattern(m[1], m[2])))}

\* the first of them: templates in declared order, then numbers ascending
FirstScoreMatch(text) ==
    CHOOSE m \in ScoreMatches(text) :
        \A n \in ScoreMatches(text) :
            m[1] < n[1] \/ (m[1] = n[1] /\ m[2] <= n[2])

\* C24: the proximity score is the number of the first template/number pair
\* that occurs in the response, the default 5 when none occurs; it is 5 or
\* an integer in 1..10.
C24_FirstMatchWins ==
    Returned =>
        /\ extracted.proximity_score \in 1..10
        /\ extracted.proximity_score =
              IF ScoreMatches(response) = {} THEN DefaultProximityScore
              ELSE FirstScoreMatch(response)[2]

\* ------------------------------------------------ generation parser, groups
\* one block of a response: a heading line and a line of text
Block(heading, word, g) ==
    <<heading, SP>> \o Str(g) \o <<":", "\n", word, SP>> \o Str(g)

\* the blocks of hypothesis group g after its Hypothesis block
FieldBlocks(g) ==
    << Block("Rationale", "reason", g), Block("Evidence", "data", g),
       Block("Assumptions", "given", g), Block("Validation", "trial", g) >>

\* group g of a response, by kind: with or without its Hypothesis block,
\* followed by none, the first or all of its four field blocks
GroupBlocks(g, kind) ==
    (IF kind.head THEN <<Block("Hypothesis", "claim", g)>> ELSE <<>>)
    \o SubSeq(FieldBlocks(g), 1, kind.fields)

GroupKinds == [head : BOOLEAN, fields : {0, 1, 4}]

\* the group with every block
FullGroup == [head |-> TRUE, fields |-> 4]

\* the blocks of groups g..n
RECURSIVE BlocksFrom(_, _, _)
BlocksFrom(f, g, n) ==
    IF g > n THEN <<>> ELSE GroupBlocks(g, f[g]) \o BlocksFrom(f, g + 1, n)

\* the response made of the groups f[1..n], a blank line between blocks
GroupsText(f, n) == Join(BlocksFrom(f, 1, n), PARA)

GroupTexts ==
    UNION { { GroupsText(f, n) : f \in [1..n -> GroupKinds] } :
            n \in 0..MaxGroups }

\* the counts handed to generate_hypotheses: small, the default, and the
\* one run_full_workflow asks for
Counts == {1, 5, 7}

InitGroups ==
    /\ pc = "idle"
    /\ passes = 0
    /\ hypotheses = <<>>
    /\ wins = <<>>
    /\ comparisons = <<>>
    /\ scored_hypotheses = <<>>
    /\ result = <<>>
    /\ response \in GroupTexts
    /\ extracted = <<>>
    /\ evaluated_hypotheses = <<>>
    /\ relevant_hypotheses = <<>>
    /\ evolved_hypotheses = <<>>
    /\ reviewed_hypotheses = <<>>
    /\ self_name = "Generation"
    /\ conversation_history = <<SystemMessage(self_name)>>
    /\ error = "None"
    /\ InitWorkflowVars
    /\ InitPlanVars

\* GenerationAgent.generate_hypotheses(research_goal, count), from the
\* response on: count is logged and not used (lines 66-67), the response is
\* parsed (line 104)
ParseResponse ==
    /\ pc = "idle"
    /\ \E count \in Counts :
        extracted' = [count |-> count, drafts |-> _parse_hypotheses(response)]
    /\ pc' = "returned"
    /\ UNCHANGED <<passes, hypotheses, result, response>>
    /\ UNCHANGED <<self_name, conversation_history, error>>
    /\ UNCHANGED outsideExtraction

NextGroups == ParseResponse

SpecGroups == InitGroups /\ [][NextGroups]_vars

\* the five free-text fields of a draft
DraftFields ==
    {"hypothesis", "rationale", "evidence", "assumptions", "validation"}

\* C22: Generation returns at most count drafts, each with all five
\* free-text fields.
C22_DraftsComplete ==
    Returned =>
        /\ Len(extracted.drafts) <= extracted.count
        /\ \A i \in 1..Len(extracted.drafts) :
              DOMAIN extracted.drafts[i] = DraftFields

\* the record of group g of a response of full groups
GroupRecord(g) ==
    [hypothesis |-> <<"claim", SP>> \o Str(g),
     rationale |-> <<"reason", SP>> \o Str(g),
     evidence |-> <<"data", SP>> \o Str(g),
     assumptions |-> <<"given", SP>> \o Str(g),
     validation |-> <<"trial", SP>> \o Str(g)]

\* C30: a response made of k full hypothesis groups is parsed into k
\* records, record g holding the fields of group g.
C30_RecordPerGroup ==
    Returned =>
        \A k \in 1..MaxGroups :
            response = GroupsText([g \in 1..k |-> FullGroup], k)
                => /\ Len(extracted.drafts) = k
                   /\ \A g \in 1..k : extracted.drafts[g] = GroupRecord(g)

\* ------------------------------------------------ validation, claims
\* the texts validation accepts: at most one issue
Tolerated(validation) == Len(validation.issues) <= AllowedIssues

\* the research state of the orchestrator (main.py lines 83-86)
ResearchState ==
    <<research_goal, self_hypotheses, self_ranked_hypotheses, final_report>>

\* set_research_goal raised ValidationError in the step
GoalRejected == error' = "ValidationError" /\ set_research_goal

\* set_research_goal returned in the step
GoalAccepted == pc' = "returned" /\ set_research_goal

\* C23: validation accepts a text iff it has at most one issue; a
\* set_research_goal call with a rejected goal raises ValidationError and
\* leaves the stored goal and the rest of the research state as they were,
\* a call that returns has stored a goal with at most one issue; and
\* generate_hypotheses stores only accepted hypotheses.
C23_OnlyAcceptedStored ==
    [][ /\ GoalRejected =>
              /\ UNCHANGED ResearchState
              /\ \A goal \in ResearchGoals :
                    validate_research_goal(goal).is_valid
                        <=> Tolerated(validate_research_goal(goal))
        /\ GoalAccepted => Tolerated(validate_research_goal(research_goal'))
        /\ research_goal' # research_goal
              => Tolerated(validate_research_goal(research_goal'))
        /\ self_hypotheses' # self_hypotheses =>
              \A i \in 1..Len(self_hypotheses') :
                  /\ self_hypotheses'[i].validation.is_valid
                  /\ Tolerated(validate_hypothesis(
                                  self_hypotheses'[i].hypothesis))
      ]_vars

\* a rejected goal came in while a goal and an accepted hypothesis with one
\* issue were stored
C23_Witness ==
    /\ pc = "raised"
    /\ error = "ValidationError"
    /\ run.step = "none"
    /\ research_goal # None
    /\ Len(validate_research_goal(research_goal).issues) = AllowedIssues
    /\ \E i \in 1..Len(self_hypotheses) :
          Len(self_hypotheses[i].validation.issues) = AllowedIssues

\* ------------------------------------------------ plan updates, claims
\* update_plan returned in this step
UpdateReturned == pc = "updating" /\ pc' = "returned"

\* C25: update_plan does not modify the plan it is given: after the call the
\* caller's plan has the keys and the step sequence it had before.
C25_CallersPlanKept ==
    [][UpdateReturned => current_plan' = current_plan]_vars

\* the executed steps noted on a plan
ExecutedSteps(plan) == DictGet(plan, "executed_steps", <<>>)

Paired(history) ==
    /\ Len(history) % 2 = 1
    /\ history[1].role = "system"
    /\ \A i \in 2..Len(history) :
          history[i].role = IF i % 2 = 0 THEN "human" ELSE "ai"

\* C28: between the calls of an agent its conversation history is its
\* system prompt followed by request/response pairs, also after a call in
\* which the language model failed: no unanswered request is left in it.
C28_HistoryPaired ==
    /\ conversation_history[1] = SystemMessage(self_name)
    /\ ~InFlight => Paired(conversation_history)

\* ------------------------------------------------ results and their goal
\* the request the generation agent answered last
LastRequest(history) == history[Len(history) - 1].content

\* C27: the stored results belong to the stored research goal: hypotheses
\* are stored from a generation request for the current goal, a ranking is
\* stored from the stored hypotheses, and a step that changes the goal leaves
\* no hypotheses, ranking or report of the goal before.
C27_ResultsOfCurrentGoal ==
    [][ /\ self_hypotheses' # self_hypotheses =>
              LastRequest(conversation_history')
                  = GenerationPrompt(research_goal')
        /\ self_ranked_hypotheses' # self_ranked_hypotheses =>
              self_ranked_hypotheses'
                  = RankedWithoutComparison(self_hypotheses')
        /\ research_goal' # research_goal =>
              /\ self_hypotheses' = <<>>
              /\ self_ranked_hypotheses' = <<>>
              /\ final_report' = None
      ]_vars

====
